---- MODULE Spec2Model ----
(***************************************************************************)
(* Resilient request execution core of the Entra ID MCP server:            *)
(*   - the error classifier (utils/error-handler.ts),                      *)
(*   - the retry/backoff engine (utils/retry.ts),                          *)
(*   - the parameter validators (utils/validation.ts),                     *)
(*   - the query builders (tools/*.ts), which run their body inside        *)
(*     retryWithBackoff and classify every failure in their catch block.   *)
(***************************************************************************)
EXTENDS Integers, Sequences, FiniteSets, TLC

VARIABLES
    pc,           \* position of the call: idle, invoke, awaiting, sleeping, done;
                  \* of a catch block on its own: caught, classified; of the tool
                  \* handler: received, responded; of validateTop: validating, validated
    tool,         \* "direct" (retryWithBackoff on a caller's operation), a builder
                  \* name, or the tool name of a tools/call request
    args,         \* the arguments of the builder operation or of validateTop
    opts,         \* the effective retry policy of the call
    attempt,      \* the loop variable of retryWithBackoff
    lastError,    \* the lastError local of retryWithBackoff
    delay,        \* the delay local: what the current sleep was given
    pending,      \* how the running invocation of fn will settle
    inflight,     \* invocations of fn that have started and not settled
    invocations,  \* number of invocations of fn
    requests,     \* number of remote request.get() calls issued
    sleeps,       \* number of sleep() calls
    hist,         \* the failure or success of each invocation of fn, in order
    outcome,      \* how the call ended: nothing yet, a value, or a thrown error
    slept,        \* milliseconds given to sleep() so far, in total
    request,      \* the last request the builder body issued
    received,     \* the last response body request.get() resolved with
    optionsObject, \* the options object the caller handed to retryWithBackoff
    defaults,     \* the module-level DEFAULT_RETRY_OPTIONS object
    calls,        \* number of retryWithBackoff calls entered so far
    other,        \* the locals of another call: one that is suspended while this
                  \* one runs, or the one that ran before this one
    params        \* request.params.arguments of the tools/call request being handled

vars == <<pc, tool, args, opts, attempt, lastError, delay, pending, inflight,
          invocations, requests, sleeps, hist, outcome, slept, request, received,
          optionsObject, defaults, calls, other, params>>

(***************************************************************************)
(* ErrorCode and MCPError                                                  *)
(***************************************************************************)
ErrorCode ==
    {"INTERNAL_ERROR", "UNKNOWN_ERROR", "GRAPH_API_ERROR", "INVALID_PARAMETER",
     "MISSING_PARAMETER", "UNAUTHORIZED", "FORBIDDEN", "NOT_FOUND",
     "INVALID_RESPONSE", "RATE_LIMITED", "NETWORK_ERROR", "TIMEOUT"}

\* Absent members of a failure object.
NoEnv == "<no envelope>"
NoCode == "<no code>"
NoInner == "<no innerError>"
NoMessage == ""
NoHint == [t |-> "none", n |-> 0, s |-> <<>>]
NoDetails == [k |-> "none", s |-> "", n |-> 0, inner |-> NoInner]

\* The details record of an MCPError: k names its one key (graphCode, httpStatus,
\* originalCode, originalError), s or n is its value.
Details(k, s, n) == [k |-> k, s |-> s, n |-> n, inner |-> NoInner]

\* A failure value.  mcp: it is an instance of MCPError.  code: its .code member
\* (the ErrorCode of an MCPError, the network identifier of a transport error).
\* status: response.status (0: absent).  env: response.error.code of the vendor
\* envelope (NoEnv: no envelope).  hint: response.headers['retry-after'].
\* inner: response.error.innerError.  msg: its .message member.  shape, text:
\* what kind of value was thrown and what String() makes of it.
\* at: the invocation of fn that raised it (the identity of the object).
\* gen: how many MCPError objects were constructed on its way.
Failure(mcp, code, status, env, hint, details) ==
    [mcp |-> mcp, code |-> code, status |-> status, env |-> env, hint |-> hint,
     details |-> details, at |-> 0, inner |-> NoInner, msg |-> NoMessage,
     shape |-> "object", text |-> "[object Object]", gen |-> 0]

\* new MCPError(message, code, details)
MCPErrorWith(message, code, details) ==
    [Failure(TRUE, code, 0, NoEnv, NoHint, details)
        EXCEPT !.msg = message, !.text = "MCPError", !.gen = 1]

MCPError(code, details) == MCPErrorWith("invalid", code, details)

\* A raw (not yet classified) failure of the remote call or of a caller's operation:
\* an Error object with a message.
Raw(status, env, code, hint) ==
    [Failure(FALSE, code, status, env, hint, NoDetails)
        EXCEPT !.msg = "request failed", !.text = "Error: request failed"]

\* A thrown value that is no object: undefined, null or a string primitive.
Primitive(shape, text) ==
    [Failure(FALSE, NoCode, 0, NoEnv, NoHint, NoDetails)
        EXCEPT !.shape = shape, !.text = text]

NoError == Failure(FALSE, NoCode, 0, NoEnv, NoHint, [k |-> "absent", s |-> "", n |-> 0, inner |-> NoInner])

(***************************************************************************)
(* Error classifier                                                        *)
(***************************************************************************)
\* Mutant: the lookup table is missing, every vendor code is a generic API error.
mapGraphErrorCode_unmapped(graphCode) == "GRAPH_API_ERROR"

\* Mutant: the table matches any code that ends in NotFound, not five of them.
mapGraphErrorCode_suffix(graphCode) ==
    IF graphCode \in {"Unauthorized", "AuthenticationFailed", "AuthenticationCanceled"}
    THEN "UNAUTHORIZED"
    ELSE IF graphCode \in {"Forbidden", "AuthorizationFailed"}
    THEN "FORBIDDEN"
    ELSE IF graphCode \in {"Request_ResourceNotFound", "ResourceNotFound", "UserNotFound",
                           "GroupNotFound", "ApplicationNotFound", "DeviceNotFound",
                           "ItemNotFound"}
    THEN "NOT_FOUND"
    ELSE IF graphCode \in {"TooManyRequests", "RateLimitExceeded", "ThrottledRequest"}
    THEN "RATE_LIMITED"
    ELSE IF graphCode \in {"BadRequest", "InvalidRequest", "InvalidFilter",
                           "InvalidQueryParameter"}
    THEN "INVALID_PARAMETER"
    ELSE IF graphCode \in {"Timeout", "RequestTimeout"}
    THEN "TIMEOUT"
    ELSE "GRAPH_API_ERROR"

mapGraphErrorCode(graphCode) ==
    IF graphCode \in {"Unauthorized", "AuthenticationFailed", "AuthenticationCanceled"}
    THEN "UNAUTHORIZED"
    ELSE IF graphCode \in {"Forbidden", "AuthorizationFailed"}
    THEN "FORBIDDEN"
    ELSE IF graphCode \in {"Request_ResourceNotFound", "ResourceNotFound", "UserNotFound",
                           "GroupNotFound", "ApplicationNotFound"}
    THEN "NOT_FOUND"
    ELSE IF graphCode \in {"TooManyRequests", "RateLimitExceeded", "ThrottledRequest"}
    THEN "RATE_LIMITED"
    ELSE IF graphCode \in {"BadRequest", "InvalidRequest", "InvalidFilter",
                           "InvalidQueryParameter"}
    THEN "INVALID_PARAMETER"
    ELSE IF graphCode \in {"Timeout", "RequestTimeout"}
    THEN "TIMEOUT"
    ELSE "GRAPH_API_ERROR"

\* error?.message: undefined, null and string primitives have none.
messageOf(error) == IF error.shape = "object" THEN error.msg ELSE NoMessage

\* Mutant: the failure is thrown again as it came instead of being classified.
handleGraphError_rethrow(error) == error

\* Mutant: the status rules come before the envelope, with no rule for 429 and
\* the server-error rule starting at 501.
handleGraphError_statusFirst(error) ==
    LET thrown ==
        IF error.status \in {401, 403}
        THEN MCPErrorWith("Authentication or authorization failed",
                          IF error.status = 401 THEN "UNAUTHORIZED" ELSE "FORBIDDEN",
                          Details("httpStatus", "", error.status))
        ELSE IF error.status = 404
        THEN MCPErrorWith("Resource not found", "NOT_FOUND",
                          Details("httpStatus", "", error.status))
        ELSE IF error.status > 500
        THEN MCPErrorWith("Microsoft Graph API server error", "GRAPH_API_ERROR",
                          Details("httpStatus", "", error.status))
        ELSE IF error.env # NoEnv
        THEN MCPErrorWith("Microsoft Graph API Error", mapGraphErrorCode(error.env),
                          [Details("graphCode", error.env, 0) EXCEPT !.inner = error.inner])
        ELSE MCPErrorWith("An unexpected error occurred", "UNKNOWN_ERROR",
                          Details("originalError", error.text, 0))
    IN [thrown EXCEPT !.at = error.at, !.gen = error.gen + 1]

\* The MCPError handleGraphError(error) throws; it never returns.
handleGraphError(error) ==
    LET thrown ==
        IF error.env # NoEnv
        THEN MCPErrorWith("Microsoft Graph API Error", mapGraphErrorCode(error.env),
                          [Details("graphCode", error.env, 0) EXCEPT !.inner = error.inner])
        ELSE IF error.status # 0 /\ error.status \in {401, 403}
        THEN MCPErrorWith("Authentication or authorization failed",
                          IF error.status = 401 THEN "UNAUTHORIZED" ELSE "FORBIDDEN",
                          Details("httpStatus", "", error.status))
        ELSE IF error.status # 0 /\ error.status = 404
        THEN MCPErrorWith("Resource not found", "NOT_FOUND",
                          Details("httpStatus", "", error.status))
        ELSE IF error.status # 0 /\ error.status = 429
        THEN MCPErrorWith("Too many requests - rate limit exceeded", "RATE_LIMITED",
                          Details("httpStatus", "", error.status))
        ELSE IF error.status # 0 /\ error.status >= 500
        THEN MCPErrorWith("Microsoft Graph API server error", "GRAPH_API_ERROR",
                          Details("httpStatus", "", error.status))
        ELSE IF error.code \in {"ECONNREFUSED", "ENOTFOUND", "ETIMEDOUT"}
        THEN MCPErrorWith("Network error connecting to Microsoft Graph API", "NETWORK_ERROR",
                          Details("originalCode", error.code, 0))
        ELSE MCPErrorWith(IF messageOf(error) # NoMessage THEN messageOf(error)
                          ELSE "An unexpected error occurred",
                          "UNKNOWN_ERROR",
                          Details("originalError",
                                  IF messageOf(error) # NoMessage THEN messageOf(error)
                                  ELSE error.text, 0))
    IN [thrown EXCEPT !.at = error.at, !.gen = error.gen + 1]

(***************************************************************************)
(* Retry/backoff engine                                                    *)
(***************************************************************************)
DEFAULT_RETRY_OPTIONS ==
    [maxRetries |-> 3, baseDelay |-> 1000, maxDelay |-> 30000, useJitter |-> TRUE,
     retryOnStatus |-> {429, 500, 502, 503, 504}, shouldRetry |-> "never"]

\* { ...DEFAULT_RETRY_OPTIONS, ...options }: the members of the module-level
\* object as they are when the call starts, overridden by the caller's.
MergeOptions(options) ==
    [k \in DOMAIN DEFAULT_RETRY_OPTIONS |->
        IF k \in DOMAIN options THEN options[k] ELSE defaults[k]]

\* Mutant: Object.assign(DEFAULT_RETRY_OPTIONS, options), which writes the
\* caller's members into the module-level object.
MergedObjects_assign(options) ==
    [opts |-> MergeOptions(options), options |-> options,
     defaults |-> MergeOptions(options)]

\* const opts = { ...DEFAULT_RETRY_OPTIONS, ...options }: the new opts object, and
\* the two objects it was read from, after the statement.
MergedObjects(options) ==
    [opts |-> MergeOptions(options), options |-> options, defaults |-> defaults]

\* The caller's shouldRetry predicate, by name: the default () => false, a
\* predicate that retries everything, one that retries HTTP 400.
shouldRetry(name, error) ==
    CASE name = "never" -> FALSE
      [] name = "always" -> TRUE
      [] name = "onBadRequest" -> error.status = 400

Pow2(n) == IF n <= 0 THEN 1 ELSE 2 ^ n

Min(a, b) == IF a <= b THEN a ELSE b

Max(a, b) == IF a >= b THEN a ELSE b

\* Mutant: the result is not capped at maxDelay.
calculateDelay_uncapped(attemptNo, baseDelay, maxDelay, useJitter, random) ==
    LET exponentialDelay == baseDelay * Pow2(attemptNo)
        jitter == IF useJitter THEN ((random - 50) * exponentialDelay) \div 200 ELSE 0
    IN exponentialDelay + jitter

\* random: the value of Math.random(), in hundredths (0..99).
calculateDelay(attemptNo, baseDelay, maxDelay, useJitter, random) ==
    LET exponentialDelay == baseDelay * Pow2(attemptNo)
        jitter == IF useJitter THEN ((random - 50) * exponentialDelay) \div 200 ELSE 0
    IN Min(exponentialDelay + jitter, maxDelay)

NetworkRetryCodes == {"ECONNRESET", "ECONNREFUSED", "ETIMEDOUT", "ENOTFOUND", "EAI_AGAIN"}

\* Mutant: the check of the network identifiers is missing.
isRetryable_noNetwork(error, options) ==
    IF shouldRetry(options.shouldRetry, error)
    THEN TRUE
    ELSE IF error.mcp /\ error.code \in {"RATE_LIMITED", "TIMEOUT"}
    THEN TRUE
    ELSE error.status # 0 /\ error.status \in options.retryOnStatus

\* Mutant: every classified error is retried.
isRetryable_anyMCPError(error, options) ==
    IF shouldRetry(options.shouldRetry, error)
    THEN TRUE
    ELSE IF error.mcp
    THEN TRUE
    ELSE IF error.status # 0
    THEN error.status \in options.retryOnStatus
    ELSE error.code \in NetworkRetryCodes

isRetryable(error, options) ==
    IF shouldRetry(options.shouldRetry, error)
    THEN TRUE
    ELSE IF error.mcp /\ error.code \in {"RATE_LIMITED", "TIMEOUT"}
    THEN TRUE
    ELSE IF error.status # 0
    THEN error.status \in options.retryOnStatus
    ELSE error.code \in NetworkRetryCodes

\* parseInt(s, 10) on a string given as its characters: leading blanks, an
\* optional sign, then the longest run of decimal digits; NaN when there is none.
DigitChars == <<"0", "1", "2", "3", "4", "5", "6", "7", "8", "9">>

IsDigit(c) == \E i \in 1..Len(DigitChars) : DigitChars[i] = c

DigitValue(c) == (CHOOSE i \in 1..Len(DigitChars) : DigitChars[i] = c) - 1

RECURSIVE SkipBlanks(_)
SkipBlanks(s) == IF s # <<>> /\ Head(s) = " " THEN SkipBlanks(Tail(s)) ELSE s

RECURSIVE DigitRun(_, _)
DigitRun(s, acc) ==
    IF s # <<>> /\ IsDigit(Head(s))
    THEN DigitRun(Tail(s), acc * 10 + DigitValue(Head(s)))
    ELSE acc

parseInt(str) ==
    LET t == SkipBlanks(str)
        negative == t # <<>> /\ Head(t) = "-"
        signed == t # <<>> /\ Head(t) \in {"-", "+"}
        digits == IF signed THEN Tail(t) ELSE t
    IN IF digits = <<>> \/ ~IsDigit(Head(digits))
       THEN [nan |-> TRUE, n |-> 0]
       ELSE [nan |-> FALSE,
             n |-> IF negative THEN 0 - DigitRun(digits, 0) ELSE DigitRun(digits, 0)]

\* A retry-after header value.  t = "none": the header (or response, or headers)
\* is absent.  "num": the number n.  "str": the string with characters s.
\* "date": a string that parses as an HTTP date lying n ms after Date.now().
NumHint(n) == [t |-> "num", n |-> n, s |-> <<>>]

StrHint(s) == [t |-> "str", n |-> 0, s |-> s]

DateHint(n) == [t |-> "date", n |-> n, s |-> <<"W", "e", "d">>]

NoDelay == [present |-> FALSE, ms |-> 0]

\* getRetryAfterDelay: [present |-> FALSE] stands for null.
getRetryAfterDelay(error) ==
    LET retryAfter == error.hint
    IN IF retryAfter.t = "none"
          \/ (retryAfter.t = "num" /\ retryAfter.n = 0)
          \/ (retryAfter.t = "str" /\ retryAfter.s = <<>>)
       THEN NoDelay
       ELSE IF retryAfter.t = "num"
       THEN [present |-> TRUE, ms |-> retryAfter.n * 1000]
       ELSE IF ~parseInt(retryAfter.s).nan
       THEN [present |-> TRUE, ms |-> parseInt(retryAfter.s).n * 1000]
       ELSE IF retryAfter.t = "date"
       THEN [present |-> TRUE, ms |-> Max(0, retryAfter.n)]
       ELSE NoDelay

\* let delay: the retry-after delay when there is one, else the computed backoff.
nextDelay(error, options, attemptNo, random) ==
    LET retryAfterDelay == getRetryAfterDelay(error)
    IN IF retryAfterDelay.present
       THEN retryAfterDelay.ms
       ELSE calculateDelay(attemptNo, options.baseDelay, options.maxDelay,
                           options.useJitter, random)

\* What retryWithBackoff throws for a failure it does not retry, and for the
\* lastError once the loop is left: the MCPError itself, else its classification.
surface(error) == IF error.mcp THEN error ELSE handleGraphError(error)

\* Mutant: only the first failure is kept.
recordError_first(previous, error) == IF previous.details.k = "absent" THEN error ELSE previous

\* lastError = error
recordError(previous, error) == error

\* Mutant: the loop gives up one attempt early.
isLastAttempt_early(attemptNo, options) == attemptNo + 1 >= options.maxRetries

\* Mutant: the loop goes on to sleep after the failure of the final attempt.
isLastAttempt_late(attemptNo, options) == attemptNo = options.maxRetries + 1

\* if (attempt === opts.maxRetries) break
isLastAttempt(attemptNo, options) == attemptNo = options.maxRetries

(***************************************************************************)
(* Parameter validators                                                    *)
(***************************************************************************)
DEFAULT_TOP_SMALL == 10
DEFAULT_TOP_MEDIUM == 50
DEFAULT_TOP_LARGE == 100
MAX_TOP == 999
DEFAULT_DAYS == 30
MAX_DAYS == 365

\* An untyped argument value.  t: undefined, null, number, string, array, boolean.
\* A number is n, or n + 1/2 when frac.  A string is its characters s.  An
\* array is its elements a.
JSValue(t, n, frac, s, a) == [t |-> t, n |-> n, frac |-> frac, s |-> s, a |-> a]

JSUndefined == JSValue("undefined", 0, FALSE, <<>>, <<>>)

JSNull == JSValue("null", 0, FALSE, <<>>, <<>>)

JSNum(n) == JSValue("number", n, FALSE, <<>>, <<>>)

JSHalf(n) == JSValue("number", n, TRUE, <<>>, <<>>)

JSStr(s) == JSValue("string", 0, FALSE, s, <<>>)

JSArr(a) == JSValue("array", 0, FALSE, <<>>, a)

Absent(value) == value.t \in {"undefined", "null"}

Valid(v) == [ok |-> TRUE, v |-> v, e |-> NoError]

Invalid(code) == [ok |-> FALSE, v |-> JSUndefined, e |-> MCPError(code, NoDetails)]

\* White space String.prototype.trim removes, among the characters the model uses.
WhiteSpace == {" ", "\t", "\n"}

\* value.trim() === ''
IsBlank(s) == \A i \in 1..Len(s) : s[i] \in WhiteSpace

\* Mutant: the string is returned between single quotes.
validateString_quoted(value, allowEmpty) ==
    IF Absent(value) THEN Invalid("INVALID_PARAMETER")
    ELSE IF value.t # "string" THEN Invalid("INVALID_PARAMETER")
    ELSE IF ~allowEmpty /\ IsBlank(value.s) THEN Invalid("INVALID_PARAMETER")
    ELSE Valid(JSStr(<<"'">> \o value.s \o <<"'">>))

validateString(value, allowEmpty) ==
    IF Absent(value) THEN Invalid("INVALID_PARAMETER")
    ELSE IF value.t # "string" THEN Invalid("INVALID_PARAMETER")
    ELSE IF ~allowEmpty /\ IsBlank(value.s) THEN Invalid("INVALID_PARAMETER")
    ELSE Valid(value)

validateOptionalString(value) ==
    IF Absent(value) THEN Valid(JSUndefined) ELSE validateString(value, FALSE)

\* Mutant: the upper limit is not checked.
validateTop_unbounded(value, defaultValue, maxValue) ==
    IF Absent(value) THEN Valid(JSNum(defaultValue))
    ELSE IF value.t # "number" THEN Invalid("INVALID_PARAMETER")
    ELSE IF value.frac THEN Invalid("INVALID_PARAMETER")
    ELSE IF value.n < 1 THEN Invalid("INVALID_PARAMETER")
    ELSE Valid(value)

\* Mutant: the lower limit is 0.
validateTop_zero(value, defaultValue, maxValue) ==
    IF Absent(value) THEN Valid(JSNum(defaultValue))
    ELSE IF value.t # "number" THEN Invalid("INVALID_PARAMETER")
    ELSE IF value.frac THEN Invalid("INVALID_PARAMETER")
    ELSE IF value.n < 0 THEN Invalid("INVALID_PARAMETER")
    ELSE IF value.n > maxValue THEN Invalid("INVALID_PARAMETER")
    ELSE Valid(value)

validateTop(value, defaultValue, maxValue) ==
    IF Absent(value) THEN Valid(JSNum(defaultValue))
    ELSE IF value.t # "number" THEN Invalid("INVALID_PARAMETER")
    ELSE IF value.frac THEN Invalid("INVALID_PARAMETER")
    ELSE IF value.n < 1 THEN Invalid("INVALID_PARAMETER")
    ELSE IF value.n > maxValue THEN Invalid("INVALID_PARAMETER")
    ELSE Valid(value)

validateDays(value, defaultValue) ==
    IF Absent(value) THEN Valid(JSNum(defaultValue))
    ELSE IF value.t # "number" THEN Invalid("INVALID_PARAMETER")
    ELSE IF value.frac THEN Invalid("INVALID_PARAMETER")
    ELSE IF value.n < 1 THEN Invalid("INVALID_PARAMETER")
    ELSE IF value.n > MAX_DAYS THEN Invalid("INVALID_PARAMETER")
    ELSE Valid(value)

validateStringArray(value) ==
    IF Absent(value) THEN Valid(JSUndefined)
    ELSE IF value.t # "array" THEN Invalid("INVALID_PARAMETER")
    ELSE IF \E i \in 1..Len(value.a) : value.a[i].t # "string" THEN Invalid("INVALID_PARAMETER")
    ELSE IF Len(value.a) = 0 THEN Valid(JSUndefined)
    ELSE Valid(value)

\* String.prototype.toLowerCase on the letters the model uses.
UpperChars == <<"A", "C", "E", "F", "H", "L", "M", "N", "O", "P", "R", "S", "T", "U", "Y">>

LowerChars == <<"a", "c", "e", "f", "h", "l", "m", "n", "o", "p", "r", "s", "t", "u", "y">>

toLowerCase(s) ==
    [i \in 1..Len(s) |->
        IF \E k \in 1..Len(UpperChars) : UpperChars[k] = s[i]
        THEN LowerChars[CHOOSE k \in 1..Len(UpperChars) : UpperChars[k] = s[i]]
        ELSE s[i]]

\* String.prototype.includes
includes(s, sub) ==
    \E i \in 0..(Len(s) - Len(sub)) : \A j \in 1..Len(sub) : s[i + j] = sub[j]

dangerous ==
    {<<"$", "c", "o", "u", "n", "t">>, <<"$", "s", "e", "a", "r", "c", "h">>,
     <<"$", "f", "o", "r", "m", "a", "t">>, <<"$", "c", "o", "m", "p", "u", "t", "e">>,
     <<"$", "a", "p", "p", "l", "y">>}

\* Mutant: the value is compared as it is written, without toLowerCase.
validateFilter_caseSensitive(value) ==
    IF Absent(value) THEN Valid(JSUndefined)
    ELSE IF value.t # "string" THEN Invalid("INVALID_PARAMETER")
    ELSE IF IsBlank(value.s) THEN Valid(JSUndefined)
    ELSE IF \E d \in dangerous : includes(value.s, toLowerCase(d))
    THEN Invalid("INVALID_PARAMETER")
    ELSE Valid(value)

validateFilter(value) ==
    IF Absent(value) THEN Valid(JSUndefined)
    ELSE IF value.t # "string" THEN Invalid("INVALID_PARAMETER")
    ELSE IF IsBlank(value.s) THEN Valid(JSUndefined)
    ELSE IF \E d \in dangerous : includes(toLowerCase(value.s), toLowerCase(d))
    THEN Invalid("INVALID_PARAMETER")
    ELSE Valid(value)

\* A remote response body.  t: "object", "null" (null or undefined) or "string".
\* value: "absent", "array" or "other" (the value member, when t is an object).
\* nextLink: the envelope has an @odata.nextLink member that names a further page.
Response(t, value, items) == [t |-> t, value |-> value, items |-> items, nextLink |-> FALSE]

\* A page envelope { value: [...], "@odata.nextLink": ... }.
Paged(items) == [Response("object", "array", items) EXCEPT !.nextLink = TRUE]

validateResponse(response, expectArray) ==
    IF response.t # "object" THEN Invalid("INVALID_RESPONSE")
    ELSE IF expectArray /\ response.value # "array" THEN Invalid("INVALID_RESPONSE")
    ELSE Valid(JSUndefined)

(***************************************************************************)
(* OData helpers                                                           *)
(***************************************************************************)
\* Text is a sequence of pieces: every single quote is a piece of its own, the
\* other pieces are characters or runs of characters that hold no single quote.
Quote == "'"

\* Mutant: input.replace("'", "''"), which replaces the first quote only.
RECURSIVE escapeODataString_first(_)
escapeODataString_first(input) ==
    IF input = <<>> THEN <<>>
    ELSE IF Head(input) = Quote THEN <<Quote, Quote>> \o Tail(input)
    ELSE <<Head(input)>> \o escapeODataString_first(Tail(input))

\* input.replace(/'/g, "''")
RECURSIVE escapeODataString(_)
escapeODataString(input) ==
    IF input = <<>> THEN <<>>
    ELSE (IF Head(input) = Quote THEN <<Quote, Quote>> ELSE <<Head(input)>>)
         \o escapeODataString(Tail(input))

\* The clock, in days since the epoch (Date.now()).
Today == 20000

\* Mutant: the offset is added to now.
getDateOffset_future(days) == Today + days

\* new Date(Date.now() - days * 24 * 60 * 60 * 1000), as a day number.
getDateOffset(days) == Today - days

\* date.toISOString(): the text of a day number.
toISOString(date) == ToString(date)

\* JSON.stringify(date.toISOString()): the ISO text between double quotes.
formatODataDate(date) == <<"\"", toISOString(date), "\"">>

(***************************************************************************)
(* State of one call                                                       *)
(***************************************************************************)
NoValue == [shape |-> "none", items |-> <<>>]

NoOutcome == [t |-> "none", v |-> NoValue, e |-> NoError]

Returned(v) == [t |-> "ok", v |-> v, e |-> NoError]

Thrown(e) == [t |-> "err", v |-> NoValue, e |-> e]

NoPending == [t |-> "none", e |-> NoError, raw |-> NoError]

NoArgs == [present |-> FALSE]

\* No tools/call request is being handled.
NoParams == [name |-> "", arguments |-> NoArgs]

NoRequest ==
    [sent |-> FALSE, method |-> "", path |-> <<>>, filtered |-> FALSE, filter |-> <<>>,
     top |-> 0, orderby |-> <<>>]

NoResponse == Response("none", "absent", <<>>)

\* options = {}: the caller handed no options.
NoOptions == <<>>

\* The locals of a call of retryWithBackoff that has not started.
IdleCall ==
    [pc |-> "idle", tool |-> "none", args |-> NoArgs, opts |-> DEFAULT_RETRY_OPTIONS,
     attempt |-> 0, lastError |-> NoError, delay |-> 0, pending |-> NoPending,
     inflight |-> 0, invocations |-> 0, requests |-> 0, sleeps |-> 0, hist |-> <<>>,
     outcome |-> NoOutcome, slept |-> 0, request |-> NoRequest, received |-> NoResponse,
     options |-> NoOptions]

\* Largest maxRetries a caller passes explicitly (the default of 3 is always tried too).
MaxRetriesOpt == 2

\* The options objects callers pass to retryWithBackoff; <<>> is {}.
CallerOptions ==
    {<<>>}
    \cup {[maxRetries |-> n] : n \in 0..MaxRetriesOpt}
    \cup {[maxRetries |-> 2, baseDelay |-> 500, maxDelay |-> 1500, useJitter |-> FALSE],
          [maxRetries |-> 1, retryOnStatus |-> {503}],
          [maxRetries |-> 1, shouldRetry |-> "always"],
          [maxRetries |-> 1, shouldRetry |-> "onBadRequest", useJitter |-> FALSE],
          [maxRetries |-> 3, useJitter |-> FALSE],
          [maxRetries |-> 2, baseDelay |-> 1000, maxDelay |-> 1500, useJitter |-> FALSE],
          [maxRetries |-> 1, maxDelay |-> 1200]}

\* Values of Math.random(), in hundredths.
RandomSamples == {0, 99}

\* Results of a caller's operation.
OperationValues == {[shape |-> "value", items |-> <<"a">>], [shape |-> "value", items |-> <<"b">>]}

\* Retry-after header values a failed response carries.
Hints ==
    {NumHint(2), NumHint(0), StrHint(<<"2">>), StrHint(<<"0">>), StrHint(<<"1", "2", "0">>),
     StrHint(<<"s", "o", "o", "n">>), DateHint(5000), DateHint(0 - 5000),
     NumHint(0 - 1), StrHint(<<"-", "5">>)}

\* Failures of a caller's operation: raw transport failures and MCPErrors.
OperationFailures ==
    {Raw(503, NoEnv, NoCode, NoHint),
     Raw(400, "InvalidRequest", NoCode, NoHint),
     Raw(400, NoEnv, NoCode, NoHint),
     Raw(400, NoEnv, "ECONNRESET", NoHint),
     Raw(404, NoEnv, NoCode, NoHint),
     Raw(0, NoEnv, "ECONNRESET", NoHint),
     Raw(0, NoEnv, "EAI_AGAIN", NoHint),
     Raw(0, NoEnv, "ENOTFOUND", NoHint),
     Raw(0, NoEnv, NoCode, NoHint),
     Raw(0, "TooManyRequests", NoCode, NoHint),
     MCPError("RATE_LIMITED", NoDetails),
     MCPError("TIMEOUT", NoDetails),
     MCPError("INVALID_PARAMETER", NoDetails)}
    \cup {Raw(429, NoEnv, NoCode, StrHint(<<"2">>))}

\* Failures of a caller's operation against a throttling remote: rejections that
\* carry a retry-after header, among others that carry none.
ThrottledFailures ==
    {Raw(429, NoEnv, NoCode, h) : h \in Hints}
    \cup {Raw(503, NoEnv, NoCode, NoHint), Raw(400, "InvalidRequest", NoCode, NoHint)}

Init ==
    /\ pc = "idle"
    /\ tool = "none"
    /\ args = NoArgs
    /\ opts = DEFAULT_RETRY_OPTIONS
    /\ attempt = 0
    /\ lastError = NoError
    /\ delay = 0
    /\ pending = NoPending
    /\ inflight = 0
    /\ invocations = 0
    /\ requests = 0
    /\ sleeps = 0
    /\ hist = <<>>
    /\ outcome = NoOutcome
    /\ slept = 0
    /\ request = NoRequest
    /\ received = NoResponse
    /\ optionsObject = NoOptions
    /\ defaults = DEFAULT_RETRY_OPTIONS
    /\ calls = 0
    /\ other = IdleCall
    /\ params = NoParams

(***************************************************************************)
(* retryWithBackoff(fn, options)                                           *)
(***************************************************************************)
\* Entry: merge the options and enter the loop at attempt 0.  With no attempt to
\* make (maxRetries < 0) the loop is skipped and handleGraphError(undefined) throws.
Enter(name, arguments, options) ==
    /\ pc = "idle"
    /\ tool' = name
    /\ args' = arguments
    /\ opts' = MergedObjects(options).opts
    /\ optionsObject' = MergedObjects(options).options
    /\ defaults' = MergedObjects(options).defaults
    /\ calls' = calls + 1
    /\ attempt' = 0
    /\ IF 0 <= MergeOptions(options).maxRetries
       THEN pc' = "invoke" /\ outcome' = outcome
       ELSE pc' = "done" /\ outcome' = Thrown(handleGraphError(NoError))
    /\ UNCHANGED <<lastError, delay, pending, inflight, invocations, requests, sleeps, hist,
                   slept, request, received, other, params>>

\* fn() settled with a value: return await fn().
Return(v) ==
    /\ pc' = "done"
    /\ outcome' = Returned(v)
    /\ hist' = Append(hist, [ok |-> TRUE, v |-> v, e |-> NoError, raw |-> NoError])
    /\ pending' = NoPending
    /\ inflight' = inflight - 1
    /\ UNCHANGED <<tool, args, opts, attempt, lastError, delay, invocations, requests, sleeps,
                   slept, request,
                   optionsObject, defaults, calls, other, params>>

\* fn() settled with a failure: the catch block of the loop, up to the throw or
\* the call of sleep.  raw: the failure as it first arose inside fn.
Catch(error, raw) ==
    /\ lastError' = recordError(lastError, error)
    /\ hist' = Append(hist, [ok |-> FALSE, v |-> NoValue, e |-> error, raw |-> raw])
    /\ pending' = NoPending
    /\ inflight' = inflight - 1
    /\ IF isLastAttempt(attempt, opts)
       THEN /\ pc' = "done"
            /\ outcome' = Thrown(surface(lastError'))
            /\ UNCHANGED <<delay, sleeps, slept>>
       ELSE IF ~isRetryable(error, opts)
       THEN /\ pc' = "done"
            /\ outcome' = Thrown(surface(error))
            /\ UNCHANGED <<delay, sleeps, slept>>
       ELSE /\ pc' = "sleeping"
            /\ \E random \in RandomSamples :
                   delay' = nextDelay(error, opts, attempt, random)
            /\ sleeps' = sleeps + 1
            /\ slept' = slept + delay'
            /\ outcome' = outcome
    /\ UNCHANGED <<tool, args, opts, attempt, invocations, requests, request,
                   optionsObject, defaults, calls, other, params>>

\* Mutant: the promise of sleep(delay) never resolves.
Wake_never ==
    /\ pc = "sleeping"
    /\ UNCHANGED vars

\* The timer of sleep(delay) fires: attempt++ and the loop condition.
Wake ==
    /\ pc = "sleeping"
    /\ attempt' = attempt + 1
    /\ delay' = 0
    /\ IF attempt + 1 <= opts.maxRetries
       THEN pc' = "invoke" /\ outcome' = outcome
       ELSE pc' = "done" /\ outcome' = Thrown(surface(lastError))
    /\ UNCHANGED <<tool, args, opts, lastError, pending, inflight, invocations, requests,
                   sleeps, hist, slept, request, received,
                   optionsObject, defaults, calls, other, params>>

(***************************************************************************)
(* retryWithBackoff on a caller's operation                                *)
(***************************************************************************)
CallRetryWithBackoff == \E options \in CallerOptions : Enter("direct", NoArgs, options)

\* Mutant: the loop does not wait for fn() to settle before it calls fn() again.
InvokeOperation_eager ==
    /\ pc \in {"invoke", "awaiting"}
    /\ tool = "direct"
    /\ invocations <= DEFAULT_RETRY_OPTIONS.maxRetries
    /\ pc' = "awaiting"
    /\ pending' = [t |-> "operation", e |-> NoError, raw |-> NoError]
    /\ inflight' = inflight + 1
    /\ invocations' = invocations + 1
    /\ UNCHANGED <<tool, args, opts, attempt, lastError, delay, requests, sleeps, hist, outcome,
                   slept, request, received,
                   optionsObject, defaults, calls, other, params>>

\* try { return await fn() }: the operation starts.
InvokeOperation ==
    /\ pc = "invoke"
    /\ tool = "direct"
    /\ pc' = "awaiting"
    /\ pending' = [t |-> "operation", e |-> NoError, raw |-> NoError]
    /\ inflight' = inflight + 1
    /\ invocations' = invocations + 1
    /\ UNCHANGED <<tool, args, opts, attempt, lastError, delay, requests, sleeps, hist, outcome,
                   slept, request, received,
                   optionsObject, defaults, calls, other, params>>

OperationSucceeds ==
    /\ pc = "awaiting"
    /\ pending.t = "operation"
    /\ \E v \in OperationValues : Return(v)
    /\ UNCHANGED received

OperationFails ==
    /\ pc = "awaiting"
    /\ pending.t = "operation"
    /\ \E e \in OperationFailures :
          Catch([e EXCEPT !.at = invocations], [e EXCEPT !.at = invocations])
    /\ UNCHANGED received

NextRetry == CallRetryWithBackoff \/ InvokeOperation \/ OperationSucceeds \/ OperationFails \/ Wake

SpecRetry == Init /\ [][NextRetry]_vars

\* The same call when the event loop keeps running the function, every
\* invocation of the operation settles and every timer of sleep fires.
SpecRetryFair ==
    /\ Init
    /\ [][NextRetry]_vars
    /\ WF_vars(InvokeOperation)
    /\ WF_vars(OperationSucceeds \/ OperationFails)
    /\ WF_vars(Wake)

\* The same call against a throttling remote.
OperationThrottled ==
    /\ pc = "awaiting"
    /\ pending.t = "operation"
    /\ \E e \in ThrottledFailures :
          Catch([e EXCEPT !.at = invocations], [e EXCEPT !.at = invocations])
    /\ UNCHANGED received

NextThrottle ==
    CallRetryWithBackoff \/ InvokeOperation \/ OperationSucceeds \/ OperationThrottled \/ Wake

SpecThrottle == Init /\ [][NextThrottle]_vars

(***************************************************************************)
(* Query builders                                                          *)
(***************************************************************************)
\* The builder operations, by shape.  validators: the validations of the body,
\* in the order the body runs them.  topDefault: the default page size.
\* checks: the body calls validateResponse on the response.  unwrap: the body
\* returns response.value || [] (otherwise the response itself).
Builder(validators, topDefault, daysDefault, checks, unwrap) ==
    [validators |-> validators, topDefault |-> topDefault, daysDefault |-> daysDefault,
     checks |-> checks, unwrap |-> unwrap]

Builders ==
    [listUsers |-> Builder(<<"top", "filter", "select">>, DEFAULT_TOP_LARGE, 0, TRUE, TRUE),
     getUserById |-> Builder(<<"id", "select">>, 0, 0, FALSE, FALSE),
     searchUsers |-> Builder(<<"term", "top">>, DEFAULT_TOP_SMALL, 0, TRUE, TRUE),
     getUserSignIns |-> Builder(<<"id", "days">>, 0, 30, TRUE, TRUE),
     listGroups |-> Builder(<<"top", "filter", "select">>, DEFAULT_TOP_LARGE, 0, FALSE, TRUE),
     getUserGroups |-> Builder(<<"id", "top">>, DEFAULT_TOP_MEDIUM, 0, FALSE, TRUE),
     searchGroups |-> Builder(<<"term", "top">>, DEFAULT_TOP_SMALL, 0, FALSE, TRUE),
     listApplications |-> Builder(<<"top", "filter", "select">>, DEFAULT_TOP_LARGE, 0, FALSE, TRUE),
     listServicePrincipals |-> Builder(<<"top", "filter", "select">>, DEFAULT_TOP_LARGE, 0, FALSE, TRUE),
     searchApplications |-> Builder(<<"term", "top">>, DEFAULT_TOP_SMALL, 0, FALSE, TRUE),
     listDevices |-> Builder(<<"top", "filter", "select">>, DEFAULT_TOP_LARGE, 0, FALSE, TRUE),
     searchDevices |-> Builder(<<"term", "top">>, DEFAULT_TOP_SMALL, 0, FALSE, TRUE),
     getInactiveDevices |-> Builder(<<"days", "top">>, DEFAULT_TOP_LARGE, 90, FALSE, TRUE),
     getAuditLogs |-> Builder(<<"days", "top", "category">>, DEFAULT_TOP_LARGE, 30, FALSE, TRUE),
     getInactiveUsers |-> Builder(<<"days", "top">>, DEFAULT_TOP_LARGE, 30, TRUE, TRUE),
     getGroupMembers |-> Builder(<<"id", "top">>, DEFAULT_TOP_MEDIUM, 0, FALSE, TRUE),
     getGroupTransitiveMembers |-> Builder(<<"id", "top">>, DEFAULT_TOP_LARGE, 0, FALSE, TRUE),
     getSignInsReport |-> Builder(<<"days", "top">>, DEFAULT_TOP_LARGE, 30, FALSE, TRUE),
     getFailedSignInsReport |-> Builder(<<"days", "top">>, DEFAULT_TOP_LARGE, 30, FALSE, TRUE),
     getRiskyUsers |-> Builder(<<"top">>, DEFAULT_TOP_MEDIUM, 0, FALSE, TRUE)]

\* The operations that take an options object: list<Resource>(options = {}).
ListOperations ==
    {"listUsers", "listGroups", "listApplications", "listServicePrincipals", "listDevices"}

BuilderNames == DOMAIN Builders

\* A default parameter (top = DEFAULT_TOP_MEDIUM, days = 90) replaces undefined only.
Defaulted(value, default) == IF value.t = "undefined" /\ default # 0 THEN JSNum(default) ELSE value

\* One validation of a builder body.
Validation(name, which, arguments) ==
    CASE which = "id" -> validateString(arguments.id, FALSE)
      [] which = "term" -> validateString(arguments.term, FALSE)
      [] which = "top" ->
            validateTop(IF name \in ListOperations
                        THEN arguments.top
                        ELSE Defaulted(arguments.top, Builders[name].topDefault),
                        Builders[name].topDefault, MAX_TOP)
      [] which = "days" ->
            validateDays(Defaulted(arguments.days, Builders[name].daysDefault), DEFAULT_DAYS)
      [] which = "filter" -> validateFilter(arguments.filter)
      [] which = "category" -> validateOptionalString(arguments.category)
      [] which = "select" -> validateStringArray(arguments.select)

\* The first validation of the body that throws, if any.
Validate(name, arguments) ==
    LET vs == Builders[name].validators
        bad == {i \in 1..Len(vs) : ~Validation(name, vs[i], arguments).ok}
    IN IF bad = {}
       THEN Valid(JSUndefined)
       ELSE Validation(name, vs[CHOOSE i \in bad : \A j \in bad : i <= j], arguments)

\* The rest of the body once request.get() has resolved with a response:
\* validateResponse where the body calls it, then the unwrapping.  Reading
\* .value of null or undefined throws a TypeError, a failure with no members.
Unwrap(name, response) ==
    IF Builders[name].checks /\ ~validateResponse(response, TRUE).ok
    THEN [ok |-> FALSE, v |-> NoValue, e |-> validateResponse(response, TRUE).e]
    ELSE IF ~Builders[name].unwrap
    THEN [ok |-> TRUE, v |-> [shape |-> response.t, items |-> response.items], e |-> NoError]
    ELSE IF response.t = "null"
    THEN [ok |-> FALSE, v |-> NoValue, e |-> Raw(0, NoEnv, NoCode, NoHint)]
    ELSE IF response.t = "object" /\ response.value # "absent"
    THEN [ok |-> TRUE, v |-> [shape |-> response.value, items |-> response.items], e |-> NoError]
    ELSE [ok |-> TRUE, v |-> [shape |-> "array", items |-> <<>>], e |-> NoError]

\* startswith(field,'term')
startswith(field, term) == <<"startswith(", field, ",", Quote>> \o term \o <<Quote, ")">>

\* Mutant: the clauses are joined by " and ".
RECURSIVE anyStartsWith_and(_, _)
anyStartsWith_and(fields, term) ==
    IF Len(fields) = 1 THEN startswith(fields[1], term)
    ELSE startswith(fields[1], term) \o <<" and ">> \o anyStartsWith_and(Tail(fields), term)

\* The startswith clauses of a search, joined by " or ".
RECURSIVE anyStartsWith(_, _)
anyStartsWith(fields, term) ==
    IF Len(fields) = 1 THEN startswith(fields[1], term)
    ELSE startswith(fields[1], term) \o <<" or ">> \o anyStartsWith(Tail(fields), term)

\* The properties each search operation matches the term against.
searchFields ==
    [searchUsers |-> <<"displayName", "givenName", "surname", "mail", "userPrincipalName">>,
     searchGroups |-> <<"displayName", "mail">>,
     searchApplications |-> <<"displayName", "appId">>,
     searchDevices |-> <<"displayName", "deviceId", "operatingSystem">>]

\* The $filter text the body of a builder puts on its request (<<>>: none).
\* Called on arguments that passed the validations of the body.
FilterOf(name, arguments) ==
    LET validated(which) == Validation(name, which, arguments).v
    IN CASE name \in ListOperations ->
                IF validated("filter").t = "string" THEN validated("filter").s ELSE <<>>
         [] name \in DOMAIN searchFields ->
                anyStartsWith(searchFields[name], escapeODataString(validated("term").s))
         [] name = "getUserSignIns" ->
                <<"userId eq ", Quote>> \o validated("id").s
                    \o <<Quote, " and ", "createdDateTime", " ge ">>
                    \o formatODataDate(getDateOffset(validated("days").n))
         [] name = "getInactiveDevices" ->
                <<"approximateLastSignInDateTime", " le ">>
                    \o formatODataDate(getDateOffset(validated("days").n))
         [] name = "getInactiveUsers" ->
                <<"signInActivity/lastSignInDateTime", " le ">>
                    \o formatODataDate(getDateOffset(validated("days").n))
         [] name = "getSignInsReport" ->
                <<"createdDateTime", " ge ">>
                    \o formatODataDate(getDateOffset(validated("days").n))
         [] name = "getFailedSignInsReport" ->
                <<"createdDateTime", " ge ">>
                    \o formatODataDate(getDateOffset(validated("days").n))
                    \o <<" and status/errorCode ne 0">>
         [] name = "getAuditLogs" ->
                <<"activityDateTime", " ge ">>
                    \o formatODataDate(getDateOffset(validated("days").n))
                    \o (IF validated("category").t = "string" /\ validated("category").s # <<>>
                        THEN <<" and category eq ", Quote>>
                                 \o escapeODataString(validated("category").s) \o <<Quote>>
                        ELSE <<>>)
         [] OTHER -> <<>>

\* The path the body hands to client.api(...).
PathOf(name, arguments) ==
    LET id == arguments.id.s
    IN CASE name \in {"listUsers", "searchUsers", "getInactiveUsers"} -> <<"/users">>
         [] name = "getUserById" -> <<"/users/">> \o id
         [] name \in {"listGroups", "searchGroups"} -> <<"/groups">>
         [] name = "getUserGroups" -> <<"/users/">> \o id \o <<"/memberOf">>
         [] name = "getGroupMembers" -> <<"/groups/">> \o id \o <<"/members">>
         [] name = "getGroupTransitiveMembers" ->
                <<"/groups/">> \o id \o <<"/transitiveMembers">>
         [] name \in {"listApplications", "searchApplications"} -> <<"/applications">>
         [] name = "listServicePrincipals" -> <<"/servicePrincipals">>
         [] name \in {"listDevices", "searchDevices", "getInactiveDevices"} -> <<"/devices">>
         [] name \in {"getUserSignIns", "getSignInsReport", "getFailedSignInsReport"} ->
                <<"/auditLogs/signIns">>
         [] name = "getAuditLogs" -> <<"/auditLogs/directoryAudits">>
         [] name = "getRiskyUsers" -> <<"/identityProtection/riskyUsers">>

\* The argument of .orderby(...) (empty: the body calls none).
OrderByOf(name) ==
    CASE name \in {"getUserSignIns", "getSignInsReport", "getFailedSignInsReport"} ->
            <<"createdDateTime", " desc">>
      [] name = "getAuditLogs" -> <<"activityDateTime", " desc">>
      [] OTHER -> <<>>

\* The argument of .top(...) (0: the body calls none).
TopOf(name, arguments) ==
    IF \E i \in 1..Len(Builders[name].validators) : Builders[name].validators[i] = "top"
    THEN Validation(name, "top", arguments).v.n
    ELSE 0

\* Mutant: the request is sent with post().
BuildRequest_post(name, arguments) ==
    [sent |-> TRUE, method |-> "POST", path |-> PathOf(name, arguments),
     filtered |-> FilterOf(name, arguments) # <<>>, filter |-> FilterOf(name, arguments),
     top |-> TopOf(name, arguments), orderby |-> OrderByOf(name)]

\* The request the body builds from its validated arguments and sends with get().
BuildRequest(name, arguments) ==
    [sent |-> TRUE, method |-> "GET", path |-> PathOf(name, arguments),
     filtered |-> FilterOf(name, arguments) # <<>>, filter |-> FilterOf(name, arguments),
     top |-> TopOf(name, arguments), orderby |-> OrderByOf(name)]

\* Argument bags of the builder calls.
NoArg == JSUndefined

Arguments(id, term, top, days, filter, select) ==
    [present |-> TRUE, id |-> id, term |-> term, top |-> top, days |-> days,
     filter |-> filter, select |-> select, category |-> NoArg]

WithCategory(arguments, category) == [arguments EXCEPT !.category = category]

Ids == {JSStr(<<"x">>), JSStr(<<>>), JSUndefined, JSNum(7)}

\* Strings a caller searches for or names a user, a category by.
Terms ==
    {JSStr(<<"T">>), JSStr(<<"O", Quote, "B">>), JSStr(<<Quote, Quote>>),
     JSStr(<<"x", Quote, " or a eq ", Quote>>),
     JSStr(<<" ">>), JSUndefined}

Tops == {JSUndefined, JSNull, JSNum(5), JSNum(999), JSNum(1000), JSNum(0), JSHalf(2), JSStr(<<"5">>)}

Days == {JSUndefined, JSNull, JSNum(90), JSNum(366)}

Filters == {JSUndefined, JSStr(<<"a", " ", "e", "q", " ", "1">>), JSStr(<<"$", "C", "o", "u", "n", "t">>)}

Selects == {JSUndefined, JSArr(<<>>), JSArr(<<JSStr(<<"i", "d">>)>>), JSArr(<<JSNum(1)>>)}

ArgumentsOf(name) ==
    CASE name \in {"listUsers", "listDevices"} ->
            {Arguments(NoArg, NoArg, t, NoArg, f, JSUndefined) : t \in Tops, f \in Filters}
            \cup {Arguments(NoArg, NoArg, JSUndefined, NoArg, JSUndefined, sel) : sel \in Selects}
      [] name \in {"listGroups", "listApplications", "listServicePrincipals"} ->
            {Arguments(NoArg, NoArg, JSUndefined, NoArg, f, JSUndefined) : f \in Filters}
      [] name \in {"searchGroups", "searchApplications", "searchDevices"} ->
            {Arguments(NoArg, term, JSUndefined, NoArg, NoArg, NoArg) : term \in Terms}
      [] name = "getUserSignIns" ->
            {Arguments(i, NoArg, NoArg, d, NoArg, NoArg) : i \in Terms, d \in {JSUndefined, JSNum(366)}}
      [] name = "getAuditLogs" ->
            {WithCategory(Arguments(NoArg, NoArg, JSUndefined, d, NoArg, NoArg), c) :
                c \in Terms, d \in {JSUndefined, JSNum(7)}}
      [] name \in {"getInactiveUsers", "getSignInsReport", "getFailedSignInsReport"} ->
            {Arguments(NoArg, NoArg, JSUndefined, d, NoArg, NoArg) : d \in {JSUndefined, JSNum(7)}}
      [] name \in {"getGroupMembers", "getGroupTransitiveMembers"} ->
            {Arguments(JSStr(<<"g">>), NoArg, t, NoArg, NoArg, NoArg) :
                t \in {JSUndefined, JSNum(5), JSNum(0)}}
      [] name = "getRiskyUsers" ->
            {Arguments(NoArg, NoArg, t, NoArg, NoArg, NoArg) :
                t \in {JSUndefined, JSNull, JSNum(5), JSNum(1000)}}
      [] name = "getUserById" ->
            {Arguments(i, NoArg, NoArg, NoArg, NoArg, sel) : i \in Ids, sel \in Selects}
      [] name = "searchUsers" ->
            {Arguments(NoArg, i, t, NoArg, NoArg, NoArg) : i \in Ids, t \in Tops}
            \cup {Arguments(NoArg, term, JSUndefined, NoArg, NoArg, NoArg) : term \in Terms}
            \cup {Arguments(NoArg, JSStr(<<"O", Quote, "B">>), JSNum(5), NoArg, NoArg, NoArg)}
      [] name = "getUserGroups" ->
            {Arguments(i, NoArg, t, NoArg, NoArg, NoArg) : i \in Ids, t \in Tops}
      [] name = "getInactiveDevices" ->
            {Arguments(NoArg, NoArg, t, d, NoArg, NoArg) : d \in Days, t \in {JSUndefined, JSNum(5), JSNum(1000)}}

\* Responses of the remote API to a request.
Responses ==
    {Response("object", "array", <<"u1", "u2">>), Response("object", "array", <<>>),
     Response("object", "absent", <<>>), Response("null", "absent", <<>>),
     Paged(<<"u1", "u2">>)}

\* Failures of request.get().
RemoteFailures ==
    {Raw(503, NoEnv, NoCode, NoHint),
     Raw(429, NoEnv, NoCode, StrHint(<<"2">>)),
     Raw(400, "InvalidRequest", NoCode, NoHint),
     Raw(404, NoEnv, NoCode, NoHint),
     Raw(0, "RequestTimeout", NoCode, NoHint),
     Raw(0, NoEnv, "ECONNRESET", NoHint),
     Raw(0, NoEnv, NoCode, NoHint)}

\* A builder is called: it calls retryWithBackoff(fn) with no options.
CallBuilder ==
    \E name \in BuilderNames : \E arguments \in ArgumentsOf(name) : Enter(name, arguments, <<>>)

\* The body starts: it runs its validations; a validation failure goes to the body's
\* catch block, which hands it to handleGraphError, and the body rejects; otherwise
\* the request is built and request.get() is issued.
InvokeBuilder ==
    /\ pc = "invoke"
    /\ tool \in BuilderNames
    /\ pc' = "awaiting"
    /\ inflight' = inflight + 1
    /\ invocations' = invocations + 1
    /\ IF Validate(tool, args).ok
       THEN /\ pending' = [t |-> "remote", e |-> NoError, raw |-> NoError]
            /\ requests' = requests + 1
            /\ request' = BuildRequest(tool, args)
       ELSE /\ pending' =
                  [t |-> "thrown",
                   e |-> handleGraphError([Validate(tool, args).e EXCEPT !.at = invocations + 1]),
                   raw |-> [Validate(tool, args).e EXCEPT !.at = invocations + 1]]
            /\ requests' = requests
            /\ request' = request
    /\ UNCHANGED <<tool, args, opts, attempt, lastError, delay, sleeps, hist, outcome,
                   slept, received,
                   optionsObject, defaults, calls, other, params>>

\* The body rejected before awaiting anything.
BodyRejects ==
    /\ pc = "awaiting"
    /\ pending.t = "thrown"
    /\ Catch(pending.e, pending.raw)
    /\ UNCHANGED received

\* request.get() resolves; the body validates and unwraps the response, and its
\* catch block hands any failure to handleGraphError.
RemoteResponds ==
    /\ pc = "awaiting"
    /\ pending.t = "remote"
    /\ \E body \in Responses :
          /\ received' = body
          /\ IF Unwrap(tool, body).ok
             THEN Return(Unwrap(tool, body).v)
             ELSE Catch(handleGraphError([Unwrap(tool, body).e EXCEPT !.at = invocations]),
                        [Unwrap(tool, body).e EXCEPT !.at = invocations])

\* request.get() rejects; the body's catch block hands the failure to handleGraphError.
RemoteFails ==
    /\ pc = "awaiting"
    /\ pending.t = "remote"
    /\ \E f \in RemoteFailures :
          Catch(handleGraphError([f EXCEPT !.at = invocations]), [f EXCEPT !.at = invocations])
    /\ UNCHANGED received

NextBuilder == CallBuilder \/ InvokeBuilder \/ BodyRejects \/ RemoteResponds \/ RemoteFails \/ Wake

SpecBuilder == Init /\ [][NextBuilder]_vars

(***************************************************************************)
(* handleGraphError on its own                                             *)
(***************************************************************************)
\* Vendor codes of an error envelope: the codes of the lookup table, codes the
\* table does not have, and the empty code.
VendorCodes ==
    {"Unauthorized", "AuthenticationFailed", "AuthenticationCanceled", "Forbidden",
     "AuthorizationFailed", "Request_ResourceNotFound", "ResourceNotFound", "UserNotFound",
     "GroupNotFound", "ApplicationNotFound", "TooManyRequests", "RateLimitExceeded",
     "ThrottledRequest", "BadRequest", "InvalidRequest", "InvalidFilter",
     "InvalidQueryParameter", "Timeout", "RequestTimeout",
     "DeviceNotFound", "ItemNotFound", "InternalServerError", "Conflict", ""}

Statuses == {0, 400, 401, 403, 404, 409, 429, 500, 503, 599}

NetworkCodes == {NoCode, "ECONNREFUSED", "ECONNRESET", "ENOTFOUND", "ETIMEDOUT", "EAI_AGAIN"}

\* The values a catch block can hand to handleGraphError.
ClassifierInputs ==
    {[Raw(status, env, code, NoHint) EXCEPT !.inner = inner] :
        status \in {0, 404, 500}, env \in VendorCodes, code \in {NoCode, "ECONNREFUSED"},
        inner \in {NoInner, "request-id"}}
    \cup {Raw(status, NoEnv, code, NoHint) : status \in Statuses, code \in NetworkCodes}
    \cup {Failure(FALSE, NoCode, 0, NoEnv, NoHint, NoDetails),
          Failure(FALSE, NoCode, 400, NoEnv, NoHint, NoDetails),
          Primitive("undefined", "undefined"), Primitive("null", "null"),
          Primitive("string", "boom"),
          MCPErrorWith("top must be a number", "INVALID_PARAMETER", NoDetails),
          MCPErrorWith("Too many requests - rate limit exceeded", "RATE_LIMITED",
                       Details("httpStatus", "", 429))}

\* A catch block is entered with a failure.
InitClassify ==
    /\ pc = "caught"
    /\ tool = "none"
    /\ args = NoArgs
    /\ opts = DEFAULT_RETRY_OPTIONS
    /\ attempt = 0
    /\ lastError \in ClassifierInputs
    /\ delay = 0
    /\ pending = NoPending
    /\ inflight = 0
    /\ invocations = 0
    /\ requests = 0
    /\ sleeps = 0
    /\ hist = <<>>
    /\ outcome = NoOutcome
    /\ slept = 0
    /\ request = NoRequest
    /\ received = NoResponse
    /\ optionsObject = NoOptions
    /\ defaults = DEFAULT_RETRY_OPTIONS
    /\ calls = 0
    /\ other = IdleCall
    /\ params = NoParams

\* handleGraphError(error)
Classify ==
    /\ pc = "caught"
    /\ pc' = "classified"
    /\ outcome' = Thrown(handleGraphError(lastError))
    /\ UNCHANGED <<tool, args, opts, attempt, lastError, delay, pending, inflight, invocations,
                   requests, sleeps, hist, slept, request, received,
                   optionsObject, defaults, calls, other, params>>

NextClassify == Classify

SpecClassify == InitClassify /\ [][NextClassify]_vars

(***************************************************************************)
(* Tool dispatcher                                                         *)
(***************************************************************************)
\* The tool names of the switch of the CallToolRequestSchema handler.
Catalog ==
    {"list_users", "get_user", "search_users", "get_inactive_users", "get_users_mfa_status",
     "get_user_sign_ins", "list_groups", "get_group_members", "get_user_groups",
     "search_groups", "list_applications", "list_service_principals",
     "search_applications", "get_application_permissions", "list_devices",
     "search_devices", "get_inactive_devices", "get_user_devices", "get_mfa_summary",
     "get_user_registration_details", "get_sign_ins_report", "get_failed_sign_ins",
     "get_audit_logs", "get_risky_users", "get_users_with_admin_roles",
     "get_license_usage", "get_conditional_access_policies", "get_role_definitions"}

\* The cases that hand String(params.<key>) to the tool.
Converting ==
    {"get_user", "search_users", "get_user_sign_ins", "get_group_members",
     "get_user_groups", "search_groups", "search_applications",
     "get_application_permissions", "search_devices", "get_user_devices"}

\* Names a client asks for: the catalog and names outside it.
RequestedNames == Catalog \cup {"delete_user", "listUsers", ""}

\* The errors a tool method rejects with: retryWithBackoff hands every failure to
\* handleGraphError, which throws an MCPError.
ToolErrors ==
    {MCPError(code, NoDetails) :
        code \in {"INVALID_PARAMETER", "UNAUTHORIZED", "FORBIDDEN", "NOT_FOUND",
                  "RATE_LIMITED", "TIMEOUT", "NETWORK_ERROR", "INVALID_RESPONSE",
                  "GRAPH_API_ERROR", "UNKNOWN_ERROR"}}

\* String(params.<key>) of an argument object whose toString and valueOf members
\* are no functions: a TypeError, an Error that is no MCPError.
ConversionError ==
    [Failure(FALSE, NoCode, 0, NoEnv, NoHint, NoDetails)
        EXCEPT !.msg = "Cannot convert object to primitive value",
               !.text = "TypeError: Cannot convert object to primitive value"]

\* default: throw new MCPError(`Unknown tool: ${name}`, ErrorCode.INVALID_PARAMETER)
unknownTool(name) == MCPErrorWith("Unknown tool: ", "INVALID_PARAMETER", NoDetails)

\* The catch block of the handler: an MCPError is rethrown, anything else is
\* wrapped in an MCPError with ErrorCode.INTERNAL_ERROR.
toolError(name, error) ==
    IF error.mcp THEN error
    ELSE MCPErrorWith("Error executing tool ", "INTERNAL_ERROR", NoDetails)

\* A tools/call request has arrived.
InitDispatch ==
    /\ pc = "received"
    /\ tool \in RequestedNames
    /\ args = NoArgs
    /\ opts = DEFAULT_RETRY_OPTIONS
    /\ attempt = 0
    /\ lastError = NoError
    /\ delay = 0
    /\ pending = NoPending
    /\ inflight = 0
    /\ invocations = 0
    /\ requests = 0
    /\ sleeps = 0
    /\ hist = <<>>
    /\ outcome = NoOutcome
    /\ slept = 0
    /\ request = NoRequest
    /\ received = NoResponse
    /\ optionsObject = NoOptions
    /\ defaults = DEFAULT_RETRY_OPTIONS
    /\ calls = 0
    /\ other = IdleCall
    /\ params = NoParams

\* What every step of the handler leaves alone.
DispatchFrame ==
    UNCHANGED <<tool, args, opts, attempt, delay, pending, inflight, invocations,
                requests, sleeps, hist, slept, request, received,
                   optionsObject, defaults, calls, other, params>>

\* The switch falls to default; the catch block rethrows the MCPError.
DispatchUnknown ==
    /\ pc = "received"
    /\ tool \notin Catalog
    /\ pc' = "responded"
    /\ lastError' = unknownTool(tool)
    /\ outcome' = Thrown(toolError(tool, unknownTool(tool)))
    /\ DispatchFrame

\* The tool method resolves and its value is returned as text content.
ToolResolves ==
    /\ pc = "received"
    /\ tool \in Catalog
    /\ pc' = "responded"
    /\ lastError' = lastError
    /\ \E v \in {<<>>, <<"u1", "u2">>} :
          outcome' = Returned([shape |-> "text", items |-> v])
    /\ DispatchFrame

\* The tool method rejects.
ToolRejects ==
    /\ pc = "received"
    /\ tool \in Catalog
    /\ pc' = "responded"
    /\ \E e \in ToolErrors :
          /\ lastError' = e
          /\ outcome' = Thrown(toolError(tool, e))
    /\ DispatchFrame

\* The conversion of an argument throws before the tool method is called.
ArgumentThrows ==
    /\ pc = "received"
    /\ tool \in Converting
    /\ pc' = "responded"
    /\ lastError' = ConversionError
    /\ outcome' = Thrown(toolError(tool, ConversionError))
    /\ DispatchFrame

NextDispatch == DispatchUnknown \/ ToolResolves \/ ToolRejects \/ ArgumentThrows

SpecDispatch == InitDispatch /\ [][NextDispatch]_vars

(***************************************************************************)
(* Several calls of retryWithBackoff                                       *)
(***************************************************************************)
\* The locals of the running call: the parameters and the let/const bindings of
\* its activation of retryWithBackoff and of fn.
Locals ==
    [pc |-> pc, tool |-> tool, args |-> args, opts |-> opts, attempt |-> attempt,
     lastError |-> lastError, delay |-> delay, pending |-> pending,
     inflight |-> inflight, invocations |-> invocations, requests |-> requests,
     sleeps |-> sleeps, hist |-> hist, outcome |-> outcome, slept |-> slept,
     request |-> request, received |-> received, options |-> optionsObject]

\* Mutant: attempt is one counter for every call (a module-level variable).
Restore_sharedAttempt(saved) == [saved EXCEPT !.attempt = attempt]

\* What a suspended call finds when it resumes: every activation has its own
\* opts, lastError, attempt and delay bindings.
Restore(saved) == saved

\* The event loop runs the call whose locals are c.
Resume(c) ==
    /\ pc' = c.pc
    /\ tool' = c.tool
    /\ args' = c.args
    /\ opts' = c.opts
    /\ attempt' = c.attempt
    /\ lastError' = c.lastError
    /\ delay' = c.delay
    /\ pending' = c.pending
    /\ inflight' = c.inflight
    /\ invocations' = c.invocations
    /\ requests' = c.requests
    /\ sleeps' = c.sleeps
    /\ hist' = c.hist
    /\ outcome' = c.outcome
    /\ slept' = c.slept
    /\ request' = c.request
    /\ received' = c.received
    /\ optionsObject' = c.options

\* The running call is suspended at an await (or has not started, or is over) and
\* the event loop turns to the other call.
Switch ==
    /\ pc # "invoke"
    /\ other' = Locals
    /\ Resume(Restore(other))
    /\ UNCHANGED <<defaults, calls, params>>

\* The policies and the remote failures of the calls that run side by side.
ConcurrentOptions == {[useJitter |-> FALSE], [maxRetries |-> 1, useJitter |-> FALSE]}

ConcurrentFailures == {Raw(503, NoEnv, NoCode, NoHint), Raw(400, "InvalidRequest", NoCode, NoHint)}

CallConcurrent == \E options \in ConcurrentOptions : Enter("direct", NoArgs, options)

OperationDrops ==
    /\ pc = "awaiting"
    /\ pending.t = "operation"
    /\ \E e \in ConcurrentFailures :
          Catch([e EXCEPT !.at = invocations], [e EXCEPT !.at = invocations])
    /\ UNCHANGED received

NextConcurrent ==
    CallConcurrent \/ InvokeOperation \/ OperationSucceeds \/ OperationDrops \/ Wake \/ Switch

SpecConcurrent == Init /\ [][NextConcurrent]_vars

\* Calls made one after the other.
MaxCalls == 2

PolicyOptions ==
    {NoOptions, [maxRetries |-> 1, baseDelay |-> 500, maxDelay |-> 800, useJitter |-> FALSE]}

CallWithPolicy == \E options \in PolicyOptions : Enter("direct", NoArgs, options)

\* The call is over and its caller is about to make another one.
CallAgain ==
    /\ pc = "done"
    /\ calls < MaxCalls
    /\ other' = Locals
    /\ Resume(IdleCall)
    /\ UNCHANGED <<defaults, calls, params>>

NextPolicy ==
    CallWithPolicy \/ InvokeOperation \/ OperationSucceeds \/ OperationDrops \/ Wake \/ CallAgain

SpecPolicy == Init /\ [][NextPolicy]_vars

(***************************************************************************)
(* validateTop on its own                                                  *)
(***************************************************************************)
\* Values a caller hands in as top.
TopValues ==
    {JSNum(n) : n \in {0 - 5, 0 - 1, 0, 1, 2, 500, 998, 999, 1000, 1001, 5000}}
    \cup {JSHalf(n) : n \in {0 - 1, 0, 2, 999}}
    \cup {JSStr(<<"5">>), JSStr(<<>>), JSArr(<<>>), JSNull, JSUndefined}

\* The defaults the operations configure.
TopDefaults == {DEFAULT_TOP_SMALL, DEFAULT_TOP_MEDIUM, DEFAULT_TOP_LARGE}

\* validateTop(value, defaultValue) is about to be called.
InitValidate ==
    /\ pc = "validating"
    /\ tool = "none"
    /\ \E value \in TopValues : \E defaultValue \in TopDefaults :
          args = [value |-> value, defaultValue |-> defaultValue, maxValue |-> MAX_TOP]
    /\ opts = DEFAULT_RETRY_OPTIONS
    /\ attempt = 0
    /\ lastError = NoError
    /\ delay = 0
    /\ pending = NoPending
    /\ inflight = 0
    /\ invocations = 0
    /\ requests = 0
    /\ sleeps = 0
    /\ hist = <<>>
    /\ outcome = NoOutcome
    /\ slept = 0
    /\ request = NoRequest
    /\ received = NoResponse
    /\ optionsObject = NoOptions
    /\ defaults = DEFAULT_RETRY_OPTIONS
    /\ calls = 0
    /\ other = IdleCall
    /\ params = NoParams

\* The call returns the page size or throws.
ApplyValidateTop ==
    /\ pc = "validating"
    /\ pc' = "validated"
    /\ outcome' =
          IF validateTop(args.value, args.defaultValue, args.maxValue).ok
          THEN Returned(validateTop(args.value, args.defaultValue, args.maxValue).v)
          ELSE Thrown(validateTop(args.value, args.defaultValue, args.maxValue).e)
    /\ UNCHANGED <<tool, args, opts, attempt, lastError, delay, pending, inflight, invocations,
                   requests, sleeps, hist, slept, request, received,
                   optionsObject, defaults, calls, other, params>>

NextValidate == ApplyValidateTop

SpecValidate == InitValidate /\ [][NextValidate]_vars

(***************************************************************************)
(* validateFilter on its own                                               *)
(***************************************************************************)
\* toUpperCase of a text of lower-case letters.
toUpperCase(s) ==
    [i \in 1..Len(s) |->
        IF \E k \in 1..Len(LowerChars) : LowerChars[k] = s[i]
        THEN UpperChars[CHOOSE k \in 1..Len(LowerChars) : LowerChars[k] = s[i]]
        ELSE s[i]]

\* Every second letter in upper case.
toMixedCase(s) == [i \in 1..Len(s) |-> IF i % 2 = 0 THEN toUpperCase(s)[i] ELSE s[i]]

\* The middle of a filter text: the denylisted tokens in three spellings, and
\* texts that hold no token (a token without its $, a token cut short, a token
\* broken by a space, an ordinary comparison, white space, nothing).
FilterCores ==
    dangerous
    \cup {toUpperCase(d) : d \in dangerous}
    \cup {toMixedCase(d) : d \in dangerous}
    \cup {<<"c", "o", "u", "n", "t">>, <<"$", "c", "o", "u", "n">>,
          <<"$", " ", "c", "o", "u", "n", "t">>, <<"$", "s", "e", "a", "r", "c", " ", "h">>,
          <<"a", " ", "e", "q", " ", "1">>, <<"$">>, <<" ">>, <<"\t", "\n">>, <<>>}

\* What a caller writes before and after it.
FilterEnds == {<<>>, <<" ">>, <<"a", " ">>, <<" ", "x">>}

\* Values a caller hands in as filter.
FilterValues ==
    {JSStr(before \o core \o after) :
        before \in FilterEnds, core \in FilterCores, after \in FilterEnds}
    \cup {JSUndefined, JSNull, JSNum(1), JSArr(<<>>)}

\* validateFilter(value) is about to be called.
InitFilter ==
    /\ pc = "validating"
    /\ tool = "none"
    /\ \E value \in FilterValues : args = [value |-> value]
    /\ opts = DEFAULT_RETRY_OPTIONS
    /\ attempt = 0
    /\ lastError = NoError
    /\ delay = 0
    /\ pending = NoPending
    /\ inflight = 0
    /\ invocations = 0
    /\ requests = 0
    /\ sleeps = 0
    /\ hist = <<>>
    /\ outcome = NoOutcome
    /\ slept = 0
    /\ request = NoRequest
    /\ received = NoResponse
    /\ optionsObject = NoOptions
    /\ defaults = DEFAULT_RETRY_OPTIONS
    /\ calls = 0
    /\ other = IdleCall
    /\ params = NoParams

\* What a call of a pure function leaves alone.
PureFrame ==
    UNCHANGED <<tool, args, opts, attempt, lastError, delay, pending, inflight, invocations,
                requests, sleeps, slept, request, received,
                optionsObject, defaults, calls, other, params>>

\* The call returns the filter (or undefined) or throws.
ApplyValidateFilter ==
    /\ pc = "validating"
    /\ pc' = "validated"
    /\ outcome' =
          IF validateFilter(args.value).ok
          THEN Returned(validateFilter(args.value).v)
          ELSE Thrown(validateFilter(args.value).e)
    /\ hist' = hist
    /\ PureFrame

NextFilter == ApplyValidateFilter

SpecFilter == InitFilter /\ [][NextFilter]_vars

(***************************************************************************)
(* escapeODataString on its own                                            *)
(***************************************************************************)
\* Longest text handed to escapeODataString.
MaxTextLen == 4

\* Texts of single characters: quotes and two other characters.
Texts == UNION {[1..n -> {Quote, "a", " "}] : n \in 0..MaxTextLen}

\* Values a caller hands in as input.
EscapeInputs == {JSStr(s) : s \in Texts} \cup {JSUndefined, JSNum(1)}

\* escapeODataString(input) is about to be called.
InitEscape ==
    /\ pc = "escaping"
    /\ tool = "none"
    /\ \E input \in EscapeInputs : args = [input |-> input]
    /\ opts = DEFAULT_RETRY_OPTIONS
    /\ attempt = 0
    /\ lastError = NoError
    /\ delay = 0
    /\ pending = NoPending
    /\ inflight = 0
    /\ invocations = 0
    /\ requests = 0
    /\ sleeps = 0
    /\ hist = <<>>
    /\ outcome = NoOutcome
    /\ slept = 0
    /\ request = NoRequest
    /\ received = NoResponse
    /\ optionsObject = NoOptions
    /\ defaults = DEFAULT_RETRY_OPTIONS
    /\ calls = 0
    /\ other = IdleCall
    /\ params = NoParams

\* The call throws on a value that is no string and returns the escaped text otherwise.
ApplyEscape ==
    /\ pc = "escaping"
    /\ pc' = "escaped"
    /\ outcome' =
          IF args.input.t # "string"
          THEN Thrown(MCPErrorWith("Input must be a string", "INVALID_PARAMETER", NoDetails))
          ELSE Returned(JSStr(escapeODataString(args.input.s)))
    /\ hist' = hist
    /\ PureFrame

NextEscape == ApplyEscape

SpecEscape == InitEscape /\ [][NextEscape]_vars

(***************************************************************************)
(* A validator applied to its own result                                   *)
(***************************************************************************)
Validators ==
    {"validateTop", "validateDays", "validateString", "validateStringArray", "validateFilter"}

\* validator(value, ...) with the other arguments of the first call.
applyValidator(name, value, arguments) ==
    CASE name = "validateTop" -> validateTop(value, arguments.defaultValue, MAX_TOP)
      [] name = "validateDays" -> validateDays(value, arguments.defaultValue)
      [] name = "validateString" -> validateString(value, arguments.allowEmpty)
      [] name = "validateStringArray" -> validateStringArray(value)
      [] name = "validateFilter" -> validateFilter(value)

\* Values a caller hands in as days, as a required string, as select.
DaysValues ==
    {JSNum(n) : n \in {0 - 1, 0, 1, 30, 90, 365, 366}}
    \cup {JSHalf(1), JSStr(<<"7">>), JSNull, JSUndefined}

StringValues ==
    {JSStr(s) : s \in {<<>>, <<" ">>, <<"x">>, <<" ", "x", " ">>, <<"O", "'", "B">>}}
    \cup {JSNum(7), JSArr(<<>>), JSNull, JSUndefined}

ArrayValues ==
    {JSArr(<<>>), JSArr(<<JSStr(<<"i", "d">>)>>), JSArr(<<JSStr(<<"i", "d">>), JSStr(<<>>)>>),
     JSArr(<<JSNum(1)>>), JSStr(<<"i", "d">>), JSNull, JSUndefined}

\* The calls: a validator and its arguments.
ValidatorCalls ==
    {[name |-> "validateTop", value |-> v, defaultValue |-> d, allowEmpty |-> FALSE] :
        v \in TopValues, d \in TopDefaults}
    \cup {[name |-> "validateDays", value |-> v, defaultValue |-> DEFAULT_DAYS,
           allowEmpty |-> FALSE] : v \in DaysValues}
    \cup {[name |-> "validateString", value |-> v, defaultValue |-> 0, allowEmpty |-> e] :
             v \in StringValues, e \in BOOLEAN}
    \cup {[name |-> "validateStringArray", value |-> v, defaultValue |-> 0,
           allowEmpty |-> FALSE] : v \in ArrayValues}
    \cup {[name |-> "validateFilter", value |-> v, defaultValue |-> 0, allowEmpty |-> FALSE] :
             v \in FilterValues}

\* A validator is about to be called.
InitRevalidate ==
    /\ pc = "validating"
    /\ \E call \in ValidatorCalls :
          /\ tool = call.name
          /\ args = [value |-> call.value, defaultValue |-> call.defaultValue,
                     allowEmpty |-> call.allowEmpty]
    /\ opts = DEFAULT_RETRY_OPTIONS
    /\ attempt = 0
    /\ lastError = NoError
    /\ delay = 0
    /\ pending = NoPending
    /\ inflight = 0
    /\ invocations = 0
    /\ requests = 0
    /\ sleeps = 0
    /\ hist = <<>>
    /\ outcome = NoOutcome
    /\ slept = 0
    /\ request = NoRequest
    /\ received = NoResponse
    /\ optionsObject = NoOptions
    /\ defaults = DEFAULT_RETRY_OPTIONS
    /\ calls = 0
    /\ other = IdleCall
    /\ params = NoParams

\* The first call returns a value or throws.
ApplyValidator ==
    /\ pc = "validating"
    /\ pc' = "validated"
    /\ hist' = <<applyValidator(tool, args.value, args)>>
    /\ outcome' =
          IF applyValidator(tool, args.value, args).ok
          THEN Returned(applyValidator(tool, args.value, args).v)
          ELSE Thrown(applyValidator(tool, args.value, args).e)
    /\ PureFrame

\* The value the first call returned is handed to the same validator.
ReapplyValidator ==
    /\ pc = "validated"
    /\ outcome.t = "ok"
    /\ pc' = "revalidated"
    /\ hist' = Append(hist, applyValidator(tool, outcome.v, args))
    /\ outcome' =
          IF applyValidator(tool, outcome.v, args).ok
          THEN Returned(applyValidator(tool, outcome.v, args).v)
          ELSE Thrown(applyValidator(tool, outcome.v, args).e)
    /\ PureFrame

NextRevalidate == ApplyValidator \/ ReapplyValidator

SpecRevalidate == InitRevalidate /\ [][NextRevalidate]_vars

(***************************************************************************)
(* A tools/call request, from the handler to the operation's outcome       *)
(***************************************************************************)
\* The cases of the switch that hand String(params.<key>) to an operation that
\* issues one request: the operation, and the argument that is converted (id:
\* userId or groupId; term: searchTerm).
ToolCalls ==
    [get_user |-> [operation |-> "getUserById", key |-> "id"],
     search_users |-> [operation |-> "searchUsers", key |-> "term"],
     get_user_sign_ins |-> [operation |-> "getUserSignIns", key |-> "id"],
     get_group_members |-> [operation |-> "getGroupMembers", key |-> "id"],
     get_user_groups |-> [operation |-> "getUserGroups", key |-> "id"],
     search_groups |-> [operation |-> "searchGroups", key |-> "term"],
     search_applications |-> [operation |-> "searchApplications", key |-> "term"],
     search_devices |-> [operation |-> "searchDevices", key |-> "term"]]

ToolNames == DOMAIN ToolCalls

\* String(value): the text of a primitive.
String(value) ==
    CASE value.t = "undefined" -> JSStr(<<"u", "n", "d", "e", "f", "i", "n", "e", "d">>)
      [] value.t = "null" -> JSStr(<<"n", "u", "l", "l">>)
      [] value.t = "string" -> value
      [] value.t = "number" -> JSStr(<<DigitChars[value.n + 1]>>)

\* The arguments the case hands to the operation: the identifier converted with
\* String, the second argument as it is.
ConvertedArguments(name, arguments) ==
    IF ToolCalls[name].key = "id"
    THEN [arguments EXCEPT !.id = String(arguments.id)]
    ELSE [arguments EXCEPT !.term = String(arguments.term)]

\* Identifier arguments of a request: omitted, null, a number, texts.
Identifiers == {JSUndefined, JSNull, JSNum(7), JSStr(<<"x">>), JSStr(<<>>)}

\* request.params of the requests a client sends (const params = args || {}).
ToolParams ==
    {[name |-> name,
      arguments |-> IF ToolCalls[name].key = "id"
                    THEN Arguments(i, NoArg, NoArg, NoArg, NoArg, NoArg)
                    ELSE Arguments(NoArg, i, NoArg, NoArg, NoArg, NoArg)] :
        name \in ToolNames, i \in Identifiers}

\* A tools/call request has arrived and its handler has not run yet.
InitToolCall ==
    /\ pc = "idle"
    /\ tool = "none"
    /\ args = NoArgs
    /\ opts = DEFAULT_RETRY_OPTIONS
    /\ attempt = 0
    /\ lastError = NoError
    /\ delay = 0
    /\ pending = NoPending
    /\ inflight = 0
    /\ invocations = 0
    /\ requests = 0
    /\ sleeps = 0
    /\ hist = <<>>
    /\ outcome = NoOutcome
    /\ slept = 0
    /\ request = NoRequest
    /\ received = NoResponse
    /\ optionsObject = NoOptions
    /\ defaults = DEFAULT_RETRY_OPTIONS
    /\ calls = 0
    /\ other = IdleCall
    /\ params \in ToolParams

\* The case of the switch calls the operation, which calls retryWithBackoff(fn).
CallTool ==
    Enter(ToolCalls[params.name].operation,
          ConvertedArguments(params.name, params.arguments), <<>>)

\* The operation has settled: its value is returned as text content, its failure
\* goes through the catch block of the handler.
Respond ==
    /\ pc = "done"
    /\ pc' = "responded"
    /\ outcome' = IF outcome.t = "ok"
                  THEN Returned([shape |-> "text", items |-> outcome.v.items])
                  ELSE Thrown(toolError(params.name, outcome.e))
    /\ UNCHANGED <<tool, args, opts, attempt, lastError, delay, pending, inflight,
                   invocations, requests, sleeps, hist, slept, request, received,
                   optionsObject, defaults, calls, other, params>>

NextToolCall ==
    CallTool \/ InvokeBuilder \/ BodyRejects \/ RemoteResponds \/ RemoteFails \/ Wake \/ Respond

SpecToolCall == InitToolCall /\ [][NextToolCall]_vars

(***************************************************************************)
(* Properties                                                              *)
(***************************************************************************)
Last(seq) == seq[Len(seq)]

AllFailed == hist # <<>> /\ \A i \in 1..Len(hist) : ~hist[i].ok

\* A raw HTTP 503 failure: a status and nothing else.
IsRaw503(e) == ~e.mcp /\ e.status = 503 /\ e.env = NoEnv /\ e.code = NoCode

\* C1: with maxRetries = 3 (503 being a retryable status), an operation that fails
\* with a raw HTTP 503 on every invocation is invoked exactly 4 times, the call
\* ends only after the fourth failure, and it ends by throwing GRAPH_API_ERROR.
C1_Always503InvokedFourTimes ==
    (/\ tool = "direct"
     /\ opts.maxRetries = 3
     /\ 503 \in opts.retryOnStatus
     /\ AllFailed
     /\ \A i \in 1..Len(hist) : IsRaw503(hist[i].raw))
    => /\ invocations <= 4
       /\ pc = "done" <=> Len(hist) = 4
       /\ pc = "done" =>
            /\ invocations = 4
            /\ outcome.t = "err"
            /\ outcome.e.mcp
            /\ outcome.e.code = "GRAPH_API_ERROR"

C1_Witness ==
    /\ tool = "direct"
    /\ opts.maxRetries = 3
    /\ pc = "done"
    /\ AllFailed
    /\ \A i \in 1..Len(hist) : IsRaw503(hist[i].raw)
    /\ invocations = 4
    /\ outcome.e.code = "GRAPH_API_ERROR"

\* The retry rule as the loop applies it to a failure, stated on the failure's members.
RetryableFailure(e, options) ==
    \/ shouldRetry(options.shouldRetry, e)
    \/ e.mcp /\ e.code \in {"RATE_LIMITED", "TIMEOUT"}
    \/ e.status # 0 /\ e.status \in options.retryOnStatus
    \/ e.status = 0 /\ e.code \in {"ECONNRESET", "ECONNREFUSED", "ETIMEDOUT", "ENOTFOUND", "EAI_AGAIN"}

IsInvalidRequest400(e) == ~e.mcp /\ e.status = 400 /\ e.env = "InvalidRequest"

\* C3: with the default policy, a first invocation failing with HTTP 400 and vendor
\* code InvalidRequest ends the call: one invocation, no sleep, INVALID_PARAMETER.
C3_InvalidRequestNotRetried ==
    (/\ tool = "direct"
     /\ opts = DEFAULT_RETRY_OPTIONS
     /\ hist # <<>>
     /\ ~hist[1].ok
     /\ IsInvalidRequest400(hist[1].raw))
    => /\ pc = "done"
       /\ invocations = 1
       /\ sleeps = 0
       /\ outcome.t = "err"
       /\ outcome.e.mcp
       /\ outcome.e.code = "INVALID_PARAMETER"

C3_Witness ==
    /\ tool = "direct"
    /\ opts = DEFAULT_RETRY_OPTIONS
    /\ pc = "done"
    /\ Len(hist) = 1
    /\ IsInvalidRequest400(hist[1].raw)
    /\ outcome.e.code = "INVALID_PARAMETER"
    /\ sleeps = 0

\* C4 (as claimed): a builder operation whose remote call fails on every attempt with
\* a raw failure whose HTTP status is in {429,500,502,503,504} issues the remote call
\* 4 times, with a sleep between attempts, before the error surfaces.
C4_BuilderRetriesRetryableStatus ==
    (/\ tool \in BuilderNames
     /\ pc = "done"
     /\ AllFailed
     /\ \A i \in 1..Len(hist) :
           ~hist[i].raw.mcp /\ hist[i].raw.status \in DEFAULT_RETRY_OPTIONS.retryOnStatus)
    => /\ requests = DEFAULT_RETRY_OPTIONS.maxRetries + 1
       /\ sleeps = DEFAULT_RETRY_OPTIONS.maxRetries

\* C5 (as claimed): when a parameter of a builder operation fails validation, the
\* caller observes an error of the kind the validator assigned.
C5_ValidationKindObserved ==
    (tool \in BuilderNames /\ pc = "done" /\ ~Validate(tool, args).ok)
    => /\ outcome.t = "err"
       /\ outcome.e.code \in {"INVALID_PARAMETER", "MISSING_PARAMETER"}
       /\ outcome.e.code = Validate(tool, args).e.code

\* C6: when a parameter of a builder operation fails validation, no remote request
\* is issued, the body runs exactly once, no sleep occurs, and the call ends in an error.
C6_ValidationFailureNeverReachesNetwork ==
    (tool \in BuilderNames /\ ~Validate(tool, args).ok)
    => /\ requests = 0
       /\ invocations <= 1
       /\ sleeps = 0
       /\ pc # "sleeping"
       /\ invocations = 1 /\ pc # "awaiting" => pc = "done" /\ outcome.t = "err"

C6_Witness ==
    /\ tool = "getUserGroups"
    /\ args.id = JSStr(<<"x">>)
    /\ args.top = JSNum(1000)
    /\ pc = "done"
    /\ invocations = 1
    /\ requests = 0
    /\ outcome.t = "err"

\* C7: a builder call ends by returning a result or by throwing an MCPError whose
\* kind is in ErrorCode; no raw failure reaches the caller.
C7_OnlyClassifiedErrorsSurface ==
    tool \in BuilderNames =>
       /\ pc = "done" =>
             \/ outcome.t = "ok"
             \/ outcome.t = "err" /\ outcome.e.mcp /\ outcome.e.code \in ErrorCode
       /\ pc # "done" => outcome.t = "none"

C7_Witness ==
    /\ tool \in BuilderNames
    /\ pc = "done"
    /\ outcome.t = "err"
    /\ ~Last(hist).raw.mcp
    /\ Last(hist).raw.status = 0
    /\ Last(hist).raw.env = NoEnv
    /\ requests >= 1
    /\ outcome.e.code = "UNKNOWN_ERROR"

\* C8: when all maxRetries+1 attempts fail, the error thrown is the failure of the
\* final attempt (itself when it is an MCPError, else its classification), and a
\* call that is over either returned the value of its last invocation or threw.
C8_LastFailureSurfaces ==
    tool = "direct" =>
       /\ (pc = "done" /\ AllFailed /\ Len(hist) = opts.maxRetries + 1) =>
             /\ outcome.t = "err"
             /\ outcome.e.at = Len(hist)
             /\ Last(hist).e.mcp => outcome.e = Last(hist).e
             /\ ~Last(hist).e.mcp => outcome.e = handleGraphError(Last(hist).e)
       /\ pc = "done" =>
             \/ outcome.t = "err" /\ ~Last(hist).ok
             \/ outcome.t = "ok" /\ Last(hist).ok /\ outcome.v = Last(hist).v

C8_Witness ==
    /\ tool = "direct"
    /\ pc = "done"
    /\ AllFailed
    /\ Len(hist) = opts.maxRetries + 1
    /\ Len(hist) >= 2
    /\ hist[1].e.status # Last(hist).e.status
    /\ outcome.e.at = Len(hist)
    /\ outcome.e.code = surface(Last(hist).e).code

\* The retry rule as the specification words it: any of (a) to (d).
RetryableAsSpecified(e, options) ==
    \/ shouldRetry(options.shouldRetry, e)
    \/ e.mcp /\ e.code \in {"RATE_LIMITED", "TIMEOUT"}
    \/ e.status \in options.retryOnStatus
    \/ e.code \in {"ECONNRESET", "ECONNREFUSED", "ETIMEDOUT", "ENOTFOUND", "EAI_AGAIN"}

\* C9 (as claimed): a failed attempt that is not the last is retried if and only if
\* the custom predicate accepts it, or it is an MCPError RATE_LIMITED or TIMEOUT, or
\* its status is in retryOnStatus, or its network identifier is in the fixed set.
C9_RetriedIffAnyRule ==
    tool = "direct" =>
       \A i \in 1..Len(hist) :
          (~hist[i].ok /\ i <= opts.maxRetries) =>
             (~(i = Len(hist) /\ pc = "done") <=> RetryableAsSpecified(hist[i].raw, opts))

\* A retry-after hint that is present and gives a number of seconds.
RECURSIVE AllDigits(_)
AllDigits(s) == s = <<>> \/ (IsDigit(Head(s)) /\ AllDigits(Tail(s)))

HintInSeconds(h) == h.t = "num" \/ (h.t = "str" /\ h.s # <<>> /\ AllDigits(h.s))

SecondsOf(h) == IF h.t = "num" THEN h.n ELSE DigitRun(h.s, 0)

\* C10 (as claimed): when the failure being retried carries a retry-after hint of N
\* seconds (a number or a numeric string), the delay slept is N*1000 ms.
C10_HintDelayIsSecondsTimes1000 ==
    (tool = "direct" /\ pc = "sleeping" /\ HintInSeconds(Last(hist).raw.hint))
    => delay = SecondsOf(Last(hist).raw.hint) * 1000

(***************************************************************************)
(* Backoff delays                                                          *)
(***************************************************************************)
\* The failure being retried carries no retry-after header.
NoHintOnLastFailure == Last(hist).e.hint.t = "none"

\* C11: with no retry-after hint, the delay after failed attempt k is
\* min(baseDelay * 2^k, maxDelay) when jitter is off; with jitter on it lies between
\* min(0.75 * baseDelay * 2^k, maxDelay) and min(1.25 * baseDelay * 2^k, maxDelay);
\* it never exceeds maxDelay.
C11_BackoffDelayWithinBounds ==
    (pc = "sleeping" /\ NoHintOnLastFailure)
    => LET exponential == opts.baseDelay * (2 ^ attempt)
       IN /\ delay <= opts.maxDelay
          /\ ~opts.useJitter => delay = Min(exponential, opts.maxDelay)
          /\ opts.useJitter =>
                /\ 4 * delay >= Min(3 * exponential, 4 * opts.maxDelay)
                /\ 4 * delay <= Min(5 * exponential, 4 * opts.maxDelay)

\* A jittered delay that the cap cut down to maxDelay.
C11_Witness ==
    /\ pc = "sleeping"
    /\ NoHintOnLastFailure
    /\ opts.useJitter
    /\ opts.baseDelay * (2 ^ attempt) < opts.maxDelay
    /\ delay = opts.maxDelay

\* C12 (as claimed): the delays slept during one call add up to at most
\* maxDelay * maxRetries, retry-after hints included.
C12_TotalSleepWithinBudget == slept <= opts.maxDelay * opts.maxRetries

\* C13 (as claimed): every delay given to sleep is non-negative, whether it comes
\* from the backoff formula or from a retry-after hint.
C13_DelaysNonNegative == pc = "sleeping" => delay >= 0

(***************************************************************************)
(* Classification                                                          *)
(***************************************************************************)
\* The kinds the vendor codes map to; notFound: the codes that give NOT_FOUND.
VendorKind(code, notFound) ==
    CASE code \in {"Unauthorized", "AuthenticationFailed", "AuthenticationCanceled"} ->
            "UNAUTHORIZED"
      [] code \in {"Forbidden", "AuthorizationFailed"} -> "FORBIDDEN"
      [] code \in notFound -> "NOT_FOUND"
      [] code \in {"TooManyRequests", "RateLimitExceeded", "ThrottledRequest"} -> "RATE_LIMITED"
      [] code \in {"BadRequest", "InvalidRequest", "InvalidFilter", "InvalidQueryParameter"} ->
            "INVALID_PARAMETER"
      [] code \in {"Timeout", "RequestTimeout"} -> "TIMEOUT"
      [] OTHER -> "GRAPH_API_ERROR"

\* The vendor codes whose name ends in NotFound.
NotFoundFamily ==
    {"Request_ResourceNotFound", "ResourceNotFound", "UserNotFound", "GroupNotFound",
     "ApplicationNotFound", "DeviceNotFound", "ItemNotFound"}

\* The five vendor codes that name a missing resource.
NotFoundListed ==
    {"Request_ResourceNotFound", "ResourceNotFound", "UserNotFound", "GroupNotFound",
     "ApplicationNotFound"}

\* The details of an envelope failure: the vendor code and the inner error.
EnvelopeDetailsKept ==
    /\ outcome.e.details.k = "graphCode"
    /\ outcome.e.details.s = lastError.env
    /\ outcome.e.details.inner = lastError.inner

\* C14 (as claimed): a failure with a vendor envelope is classified by its vendor
\* code alone, every code ending in NotFound giving NOT_FOUND, and the details
\* carry the vendor code and the inner error.
C14_EnvelopeClassifiedByVendorCode ==
    (pc = "classified" /\ lastError.env # NoEnv)
    => /\ outcome.e.code = VendorKind(lastError.env, NotFoundFamily)
       /\ EnvelopeDetailsKept

\* C14 (amended): a failure with a vendor envelope is classified by its vendor code
\* alone; Request_ResourceNotFound, ResourceNotFound, UserNotFound, GroupNotFound
\* and ApplicationNotFound give NOT_FOUND, any other code ending in NotFound gives
\* GRAPH_API_ERROR like every unlisted code; the details carry the vendor code and
\* the inner error.
C14_EnvelopeClassifiedByListedCode ==
    (pc = "classified" /\ lastError.env # NoEnv)
    => /\ outcome.e.code = VendorKind(lastError.env, NotFoundListed)
       /\ EnvelopeDetailsKept

\* An unlisted NotFound code on a 404 response with an inner error.
C14_Witness ==
    /\ pc = "classified"
    /\ lastError.env = "DeviceNotFound"
    /\ lastError.status = 404
    /\ lastError.inner # NoInner
    /\ outcome.e.code = "GRAPH_API_ERROR"
    /\ outcome.e.details.inner = lastError.inner

\* C15: with no envelope, status 401 gives UNAUTHORIZED, 403 FORBIDDEN, 404
\* NOT_FOUND, 429 RATE_LIMITED and any status of 500 or more GRAPH_API_ERROR, each
\* with the status as its httpStatus detail.
C15_StatusClassification ==
    (/\ pc = "classified"
     /\ lastError.env = NoEnv
     /\ (lastError.status \in {401, 403, 404, 429} \/ lastError.status >= 500))
    => /\ outcome.e.code =
            (CASE lastError.status = 401 -> "UNAUTHORIZED"
               [] lastError.status = 403 -> "FORBIDDEN"
               [] lastError.status = 404 -> "NOT_FOUND"
               [] lastError.status = 429 -> "RATE_LIMITED"
               [] OTHER -> "GRAPH_API_ERROR")
       /\ outcome.e.details.k = "httpStatus"
       /\ outcome.e.details.n = lastError.status

\* A server error that also carries a network identifier.
C15_Witness ==
    /\ pc = "classified"
    /\ lastError.env = NoEnv
    /\ lastError.status = 599
    /\ lastError.code = "ECONNREFUSED"
    /\ outcome.e.code = "GRAPH_API_ERROR"
    /\ outcome.e.details.n = 599

\* The network identifiers the classifier is said to know.
ClaimedNetworkIds == {"ECONNREFUSED", "ECONNRESET", "ENOTFOUND", "ETIMEDOUT"}

\* C16 (as claimed): with no envelope and no status, the identifiers ECONNREFUSED,
\* ECONNRESET, ENOTFOUND and ETIMEDOUT give NETWORK_ERROR with the identifier as
\* detail; a failure that matches none of the rules gives UNKNOWN_ERROR.
C16_NetworkClassification ==
    pc = "classified"
    => /\ (lastError.env = NoEnv /\ lastError.status = 0 /\ lastError.code \in ClaimedNetworkIds)
            => /\ outcome.e.code = "NETWORK_ERROR"
               /\ outcome.e.details.k = "originalCode"
               /\ outcome.e.details.s = lastError.code
       /\ (/\ lastError.env = NoEnv
           /\ ~(lastError.status \in {401, 403, 404, 429} \/ lastError.status >= 500)
           /\ lastError.code \notin ClaimedNetworkIds)
            => outcome.e.code = "UNKNOWN_ERROR"

\* C17: handleGraphError never returns; whatever it is given (undefined, null, a
\* string, an MCPError, an object with a status it has no rule for) it raises one
\* MCPError.
C17_AlwaysRaisesOneMCPError ==
    pc = "classified"
    => /\ outcome.t = "err"
       /\ outcome.e.mcp
       /\ outcome.e.code \in ErrorCode
       /\ outcome.e.gen = lastError.gen + 1

\* undefined was handed in.
C17_Witness ==
    /\ pc = "classified"
    /\ lastError.shape = "undefined"
    /\ outcome.t = "err"
    /\ outcome.e.code = "UNKNOWN_ERROR"
    /\ outcome.e.details.s = "undefined"

\* The MCPError a failure of the last invocation was first turned into: the failure
\* itself when it was raised as an MCPError, else what the body's catch block made.
FirstClassified == IF Last(hist).raw.mcp THEN Last(hist).raw ELSE Last(hist).e

\* C18 (as claimed): for a failure of a builder call one MCPError is created, at
\* its first classification, and the caller observes that error with the same
\* kind, message and details.
C18_OneErrorPerFailure ==
    (tool \in BuilderNames /\ pc = "done" /\ outcome.t = "err")
    => /\ outcome.e.gen = 1
       /\ outcome.e.code = FirstClassified.code
       /\ outcome.e.msg = FirstClassified.msg
       /\ outcome.e.details = FirstClassified.details

(***************************************************************************)
(* Filters and results                                                     *)
(***************************************************************************)
\* The string literals of a filter text as OData reads it: a quote opens a
\* literal, two quotes inside it stand for one, a single one closes it.  A literal
\* still open at the end of the text is reported as <<"<open>">>.
RECURSIVE Literals(_, _, _)
Literals(text, inside, current) ==
    IF text = <<>>
    THEN (IF inside THEN <<<<"<open>">>>> ELSE <<>>)
    ELSE IF ~inside
    THEN Literals(Tail(text), Head(text) = Quote, <<>>)
    ELSE IF Head(text) # Quote
    THEN Literals(Tail(text), TRUE, Append(current, Head(text)))
    ELSE IF Len(text) >= 2 /\ text[2] = Quote
    THEN Literals(Tail(Tail(text)), TRUE, Append(current, Quote))
    ELSE <<current>> \o Literals(Tail(text), FALSE, <<>>)

\* The caller's string an operation places between quotes, and how many times.
Quoted ==
    CASE tool \in DOMAIN searchFields ->
            [k \in 1..Len(searchFields[tool]) |-> args.term.s]
      [] tool = "getUserSignIns" -> <<args.id.s>>
      [] tool = "getAuditLogs" /\ args.category.t = "string" -> <<args.category.s>>
      [] OTHER -> <<>>

\* C19 (as claimed): in searchUsers, searchGroups, searchApplications,
\* searchDevices, getUserSignIns and getAuditLogs every single quote of the caller's
\* string is doubled in the filter sent, so that the literals of the filter are the
\* caller's string and nothing else.
C19_QuotesDoubledInFilter ==
    (request.sent /\ tool \in (DOMAIN searchFields) \cup {"getUserSignIns", "getAuditLogs"})
    => Literals(request.filter, FALSE, <<>>) = Quoted

\* C20 (as claimed): a list operation returns the item array of the response, and
\* the empty list when the response has no value member.
C20_ListReturnsItemsOrEmpty ==
    (tool \in ListOperations /\ received.t = "object")
    => outcome = Returned([shape |-> "array",
                           items |-> IF received.value = "array" THEN received.items ELSE <<>>])

(***************************************************************************)
(* C21                                                                     *)
(***************************************************************************)
\* The filter the claim spells out for an escaped term T.
C21_Filter(T) ==
    <<"startswith(", "displayName", ",", Quote>> \o T \o <<Quote, ")", " or ">>
    \o <<"startswith(", "givenName", ",", Quote>> \o T \o <<Quote, ")", " or ">>
    \o <<"startswith(", "surname", ",", Quote>> \o T \o <<Quote, ")", " or ">>
    \o <<"startswith(", "mail", ",", Quote>> \o T \o <<Quote, ")", " or ">>
    \o <<"startswith(", "userPrincipalName", ",", Quote>> \o T \o <<Quote, ")">>

\* searchUsers was called with a term and a top that pass validation, and its body has run.
C21_Case ==
    /\ tool = "searchUsers"
    /\ invocations >= 1
    /\ validateString(args.term, FALSE).ok
    /\ validateTop(args.top, DEFAULT_TOP_SMALL, MAX_TOP).ok

\* C21: searchUsers(term, top) with a valid term and top issues, at each attempt,
\* one request on /users whose filter is exactly the five startswith clauses over
\* the escaped term joined by " or ", with page size top (10 when top is absent),
\* and a call that returns returns the item list of the response unmodified.
C21_SearchUsersRequest ==
    C21_Case =>
        /\ requests = invocations
        /\ request.sent
        /\ request.path = <<"/users">>
        /\ request.filter = C21_Filter(escapeODataString(args.term.s))
        /\ request.top = (IF Absent(args.top) THEN 10 ELSE args.top.n)
        /\ (pc = "done" /\ outcome.t = "ok") =>
              /\ received.value = "array"
              /\ outcome.v = [shape |-> "array", items |-> received.items]

C21_Witness ==
    /\ C21_Case
    /\ args.term.s = <<"O", Quote, "B">>
    /\ args.top = JSNum(5)
    /\ request.top = 5
    /\ pc = "done"
    /\ outcome = Returned([shape |-> "array", items |-> <<"u1", "u2">>])

(***************************************************************************)
(* C22                                                                     *)
(***************************************************************************)
\* The activity field and the comparison of each time-windowed fetcher.
C22_Windowed ==
    [getInactiveUsers |-> [field |-> "signInActivity/lastSignInDateTime", op |-> " le "],
     getInactiveDevices |-> [field |-> "approximateLastSignInDateTime", op |-> " le "],
     getSignInsReport |-> [field |-> "createdDateTime", op |-> " ge "],
     getFailedSignInsReport |-> [field |-> "createdDateTime", op |-> " ge "],
     getAuditLogs |-> [field |-> "activityDateTime", op |-> " ge "],
     getUserSignIns |-> [field |-> "createdDateTime", op |-> " ge "]]

\* The number of days the body's validateDays call yields.
C22_Days == validateDays(Defaulted(args.days, Builders[tool].daysDefault), DEFAULT_DAYS).v.n

\* field op "<ISO of now minus days>"
C22_Clause(name, days) ==
    <<C22_Windowed[name].field, C22_Windowed[name].op, "\"", ToString(Today - days), "\"">>

\* text holds clause as a run of consecutive pieces.
C22_Contains(text, clause) ==
    \E i \in 1..(Len(text) - Len(clause) + 1) : SubSeq(text, i, i + Len(clause) - 1) = clause

\* C22: every request of a time-windowed fetcher filters on its activity field
\* compared with the ISO date of now minus the validated number of days; the
\* inactivity fetchers compare with 'le', the recency fetchers with 'ge' and order
\* by the same field, descending.
C22_TimeWindowFilters ==
    (tool \in DOMAIN C22_Windowed /\ request.sent) =>
        /\ C22_Contains(request.filter, C22_Clause(tool, C22_Days))
        /\ tool \in {"getInactiveUsers", "getInactiveDevices"} =>
              /\ C22_Windowed[tool].op = " le "
              /\ request.filter = C22_Clause(tool, C22_Days)
        /\ tool \notin {"getInactiveUsers", "getInactiveDevices"} =>
              /\ C22_Windowed[tool].op = " ge "
              /\ request.orderby = <<C22_Windowed[tool].field, " desc">>

C22_Witness ==
    /\ tool = "getInactiveDevices"
    /\ args.days = JSNum(90)
    /\ request.sent
    /\ request.filter =
          <<"approximateLastSignInDateTime", " le ", "\"", ToString(Today - 90), "\"">>
    /\ pc = "done"
    /\ outcome.t = "ok"

(***************************************************************************)
(* C23                                                                     *)
(***************************************************************************)
\* C23: a call of a tool name outside the catalog is answered with the code
\* UNKNOWN_TOOL, and an error of a known tool that was no MCPError is answered
\* with the code TOOL_EXECUTION_ERROR.
C23_DispatchErrorCodes ==
    pc = "responded" =>
        /\ tool \notin Catalog => outcome.t = "err" /\ outcome.e.code = "UNKNOWN_TOOL"
        /\ (tool \in Catalog /\ outcome.t = "err" /\ ~lastError.mcp) =>
              outcome.e.code = "TOOL_EXECUTION_ERROR"

(***************************************************************************)
(* C24                                                                     *)
(***************************************************************************)
\* C24: within one call of retryWithBackoff at most one invocation of the
\* operation is in flight, and an invocation is in flight only when every earlier
\* invocation has failed and every sleep that followed one has finished: the
\* invocation of attempt k is the (k+1)th, after k failures and k finished sleeps.
C24_AttemptsSequential ==
    /\ inflight \in {0, 1}
    /\ invocations = Len(hist) + inflight
    /\ pc = "sleeping" => inflight = 0 /\ sleeps = attempt + 1
    /\ inflight = 1 =>
          /\ pc = "awaiting"
          /\ invocations = attempt + 1
          /\ sleeps = attempt
          /\ \A i \in 1..Len(hist) : ~hist[i].ok

C24_Witness ==
    /\ tool = "direct"
    /\ pc = "awaiting"
    /\ inflight = 1
    /\ attempt = 2
    /\ invocations = 3
    /\ sleeps = 2

(***************************************************************************)
(* C25                                                                     *)
(***************************************************************************)
\* The policy of a call: its caller's options over the defaults of the source.
C25_Policy(c) ==
    [k \in DOMAIN DEFAULT_RETRY_OPTIONS |->
        IF k \in DOMAIN c.options THEN c.options[k] ELSE DEFAULT_RETRY_OPTIONS[k]]

\* The call whose locals are c is where its own policy and the outcomes of its
\* own invocations put it: its invocations are those of its own history, every
\* failure but the last was retryable under its policy and within its budget,
\* its attempt counter counts its own failures, its delay is the one computed from
\* its own last failure, and its outcome is that of its own last invocation.
C25_Own(c) ==
    LET p == C25_Policy(c)
        n == Len(c.hist)
    IN c.pc # "idle" =>
          /\ c.opts = p
          /\ c.invocations = n + c.inflight
          /\ n <= p.maxRetries + 1
          /\ \A i \in 1..(n - 1) :
                ~c.hist[i].ok /\ isRetryable(c.hist[i].e, p) /\ c.hist[i].e.at = i
          /\ c.pc = "invoke" => c.attempt = n
          /\ c.pc = "awaiting" => c.attempt = n /\ c.inflight = 1
          /\ c.pc = "sleeping" =>
                /\ c.attempt = n - 1
                /\ n - 1 < p.maxRetries
                /\ ~c.hist[n].ok
                /\ isRetryable(c.hist[n].e, p)
                /\ \E random \in RandomSamples :
                      c.delay = nextDelay(c.hist[n].e, p, n - 1, random)
          /\ c.pc = "done" =>
                /\ n >= 1
                /\ c.attempt = n - 1
                /\ IF c.hist[n].ok
                   THEN c.outcome = Returned(c.hist[n].v)
                   ELSE /\ n - 1 = p.maxRetries \/ ~isRetryable(c.hist[n].e, p)
                        /\ c.outcome = Thrown(surface(c.hist[n].e))

\* C25: whatever the interleaving of two calls, each call's attempts, delays and
\* outcome follow from its own policy and the outcomes of its own invocations, and
\* each call makes its own invocations, also when both calls are the same.
C25_CallsIndependent == C25_Own(Locals) /\ C25_Own(other)

C25_Witness ==
    /\ other.pc = "sleeping"
    /\ other.options = [maxRetries |-> 1, useJitter |-> FALSE]
    /\ other.attempt = 0
    /\ pc = "awaiting"
    /\ optionsObject = [useJitter |-> FALSE]
    /\ attempt = 3
    /\ invocations = 4

(***************************************************************************)
(* C26                                                                     *)
(***************************************************************************)
\* C26: every attempt of a builder operation issues at most one remote request,
\* every request is a GET, and a call that returns has issued one request per
\* attempt and returns the content of the last response alone; a response that
\* names a next page is followed by no further request.
C26_OneReadPerAttempt ==
    tool \in BuilderNames =>
        /\ requests <= invocations
        /\ request.sent => request.method = "GET"
        /\ requests > 0 <=> request.sent
        /\ (pc = "done" /\ outcome.t = "ok") =>
              /\ requests = Len(hist)
              /\ outcome.v.items = received.items

C26_Witness ==
    /\ tool = "getGroupMembers"
    /\ pc = "done"
    /\ outcome.t = "ok"
    /\ received = Paged(<<"u1", "u2">>)
    /\ outcome.v.items = <<"u1", "u2">>
    /\ invocations = 2
    /\ requests = 2

(***************************************************************************)
(* C27                                                                     *)
(***************************************************************************)
\* The three ways a call ends.
C27_Success == outcome.t = "ok" /\ hist # <<>> /\ Last(hist).ok

C27_Exhausted ==
    /\ outcome.t = "err"
    /\ hist # <<>>
    /\ ~Last(hist).ok
    /\ Len(hist) = opts.maxRetries + 1

C27_NonRetryable ==
    /\ outcome.t = "err"
    /\ hist # <<>>
    /\ ~Last(hist).ok
    /\ Len(hist) <= opts.maxRetries
    /\ ~isRetryable(Last(hist).e, opts)

C27_ExactlyOne ==
    \/ C27_Success /\ ~C27_Exhausted /\ ~C27_NonRetryable
    \/ ~C27_Success /\ C27_Exhausted /\ ~C27_NonRetryable
    \/ ~C27_Success /\ ~C27_Exhausted /\ C27_NonRetryable

\* C27: when every invocation of the operation settles and every sleep ends, a
\* call of retryWithBackoff with maxRetries >= 0 that has entered its loop
\* eventually completes, and a completed call has ended in exactly one of three
\* ways: success, exhausted retries, non-retryable failure.
C27_EventuallyCompletes ==
    /\ (pc = "invoke" /\ opts.maxRetries >= 0) ~> (pc = "done")
    /\ [](pc = "done" /\ opts.maxRetries >= 0 => C27_ExactlyOne)

C27_Witness ==
    /\ pc = "done"
    /\ opts.maxRetries = 3
    /\ C27_Exhausted
    /\ sleeps = 3
    /\ invocations = 4

(***************************************************************************)
(* C28                                                                     *)
(***************************************************************************)
\* The caller's options over the defaults the source declares.
C28_Effective ==
    [k \in DOMAIN DEFAULT_RETRY_OPTIONS |->
        IF k \in DOMAIN optionsObject THEN optionsObject[k] ELSE DEFAULT_RETRY_OPTIONS[k]]

\* C28: the policy of a call is its caller's options over the defaults from the
\* moment the call starts, and no step of the call changes it; no step changes
\* the caller's options object or the module-level defaults, so a call made
\* without options, also after other calls, has maxRetries 3, baseDelay 1000,
\* maxDelay 30000, jitter on and retryOnStatus {429, 500, 502, 503, 504}.
C28_PolicyFixed ==
    /\ [](defaults = DEFAULT_RETRY_OPTIONS)
    /\ [](pc # "idle" => opts = C28_Effective /\ optionsObject \in PolicyOptions)
    /\ [](pc # "idle" /\ optionsObject = NoOptions =>
             /\ opts.maxRetries = 3
             /\ opts.baseDelay = 1000
             /\ opts.maxDelay = 30000
             /\ opts.useJitter
             /\ opts.retryOnStatus = {429, 500, 502, 503, 504})
    /\ [][(pc \in {"invoke", "awaiting", "sleeping"}) =>
              (opts' = opts /\ optionsObject' = optionsObject)]_vars

C28_Witness ==
    /\ other.pc = "done"
    /\ other.options = [maxRetries |-> 1, baseDelay |-> 500, maxDelay |-> 800, useJitter |-> FALSE]
    /\ other.opts.maxRetries = 1
    /\ calls = 2
    /\ optionsObject = NoOptions
    /\ pc = "sleeping"
    /\ attempt = 2
    /\ opts.maxRetries = 3

(***************************************************************************)
(* C29                                                                     *)
(***************************************************************************)
\* The operations that take a top argument.
C29_AcceptsTop(name) ==
    \E i \in 1..Len(Builders[name].validators) : Builders[name].validators[i] = "top"

C29_Search == {"searchUsers", "searchGroups", "searchApplications", "searchDevices"}

\* The operations that query a relationship sub-path under an id.
C29_Relationship == {"getUserGroups", "getGroupMembers", "getGroupTransitiveMembers"}

\* The page size of every request: defaultOf names the default of each operation.
C29_PageSize(defaultOf) ==
    (tool \in BuilderNames /\ C29_AcceptsTop(tool)) =>
        /\ request.sent =>
              /\ request.top \in 1..MAX_TOP
              /\ Absent(args.top) => request.top = defaultOf[tool]
              /\ ~Absent(args.top) =>
                    /\ args.top.t = "number"
                    /\ ~args.top.frac
                    /\ request.top = args.top.n
        /\ (~Absent(args.top) /\ ~validateTop(args.top, 1, MAX_TOP).ok) => requests = 0

\* C29 as claimed: every request of an operation that takes top carries an integer
\* page size in [1, 999], the caller's when it is valid, and when top is absent 10
\* for search, 50 for every relationship fetcher and risky users, 100 otherwise.
C29_PageSizeClaimedDefaults ==
    C29_PageSize([name \in BuilderNames |->
                     IF name \in C29_Search THEN 10
                     ELSE IF name \in C29_Relationship \cup {"getRiskyUsers"} THEN 50
                     ELSE 100])

\* C29 as amended: the same, but getGroupTransitiveMembers defaults to 100 as the
\* list, report and time-windowed operations do.
C29_PageSizeDefaults ==
    C29_PageSize([name \in BuilderNames |->
                     IF name \in C29_Search THEN 10
                     ELSE IF name \in (C29_Relationship \ {"getGroupTransitiveMembers"})
                                         \cup {"getRiskyUsers"} THEN 50
                     ELSE 100])

C29_Witness ==
    /\ tool = "getGroupTransitiveMembers"
    /\ Absent(args.top)
    /\ request.sent
    /\ request.top = 100
    /\ pc = "done"
    /\ outcome.t = "ok"

(***************************************************************************)
(* C30                                                                     *)
(***************************************************************************)
\* C30: validateTop returns an integer of [1, 999] unchanged, returns the
\* configured default for undefined and null, and throws INVALID_PARAMETER for 0,
\* negative numbers, non-integer numbers, non-numbers and integers above 999.
C30_ValidateTop ==
    pc = "validated" =>
        IF Absent(args.value)
        THEN outcome = Returned(JSNum(args.defaultValue))
        ELSE IF args.value.t = "number" /\ ~args.value.frac /\ args.value.n \in 1..999
        THEN outcome = Returned(args.value)
        ELSE /\ outcome.t = "err"
             /\ outcome.e.mcp
             /\ outcome.e.code = "INVALID_PARAMETER"

C30_Witness ==
    /\ pc = "validated"
    /\ args.value = JSNum(999)
    /\ args.defaultValue = DEFAULT_TOP_MEDIUM
    /\ outcome = Returned(JSNum(999))

(***************************************************************************)
(* C31                                                                     *)
(***************************************************************************)
\* The text holds a denylisted token at some position, in some spelling.
C31_HoldsToken(s) ==
    \E d \in dangerous : \E i \in 0..(Len(s) - Len(d)) :
        \A j \in 1..Len(d) : s[i + j] \in {d[j], toUpperCase(d)[j]}

\* validateFilter fails with INVALID_PARAMETER on every string that holds a token.
C31_TokenRejected ==
    (pc = "validated" /\ args.value.t = "string" /\ C31_HoldsToken(args.value.s)) =>
        outcome.t = "err" /\ outcome.e.mcp /\ outcome.e.code = "INVALID_PARAMETER"

\* C31 as claimed: a string that holds a token fails with INVALID_PARAMETER and
\* every string that holds none is returned unchanged.
C31_FilterDenylistAnyString ==
    /\ C31_TokenRejected
    /\ (pc = "validated" /\ args.value.t = "string" /\ ~C31_HoldsToken(args.value.s)) =>
          outcome = Returned(args.value)

\* C31 as amended: a string that holds a token fails with INVALID_PARAMETER, a
\* string that holds none and is not blank is returned unchanged, and a blank
\* string (empty or white space only) gives undefined.
C31_FilterDenylist ==
    /\ C31_TokenRejected
    /\ (pc = "validated" /\ args.value.t = "string" /\ ~C31_HoldsToken(args.value.s)) =>
          IF IsBlank(args.value.s)
          THEN outcome = Returned(JSUndefined)
          ELSE outcome = Returned(args.value)

C31_Witness ==
    /\ pc = "validated"
    /\ args.value = JSStr(<<"a", " ", "$", "S", "e", "A", "r", "C", "h", " ", "x">>)
    /\ outcome.t = "err"
    /\ outcome.e.code = "INVALID_PARAMETER"

(***************************************************************************)
(* C32                                                                     *)
(***************************************************************************)
\* The number of single quotes of a text.
C32_Quotes(s) == Cardinality({i \in 1..Len(s) : s[i] = Quote})

\* The text without its single quotes.
C32_Others(s) == SelectSeq(s, LAMBDA c : c # Quote)

\* The text with one quote of every pair of adjacent quotes deleted, pairs taken
\* from the left.
RECURSIVE C32_Halved(_)
C32_Halved(s) ==
    IF s = <<>> THEN <<>>
    ELSE IF Len(s) >= 2 /\ s[1] = Quote /\ s[2] = Quote
    THEN <<Quote>> \o C32_Halved(Tail(Tail(s)))
    ELSE <<Head(s)>> \o C32_Halved(Tail(s))

\* C32: the output of escapeODataString has twice the single quotes of the input,
\* keeps every other character in place and order (deleting one quote of each
\* doubled pair gives the input back), and is the input when the input has no
\* single quote.
C32_EscapeDoublesQuotes ==
    (pc = "escaped" /\ args.input.t = "string") =>
        /\ outcome.t = "ok"
        /\ outcome.v.t = "string"
        /\ C32_Quotes(outcome.v.s) = 2 * C32_Quotes(args.input.s)
        /\ C32_Others(outcome.v.s) = C32_Others(args.input.s)
        /\ Len(outcome.v.s) = Len(args.input.s) + C32_Quotes(args.input.s)
        /\ C32_Halved(outcome.v.s) = args.input.s
        /\ C32_Quotes(args.input.s) = 0 => outcome.v.s = args.input.s

C32_Witness ==
    /\ pc = "escaped"
    /\ args.input = JSStr(<<Quote, "a", Quote, Quote>>)
    /\ outcome = Returned(JSStr(<<Quote, Quote, "a", Quote, Quote, Quote, Quote>>))

(***************************************************************************)
(* C33                                                                     *)
(***************************************************************************)
\* C33: when validateTop, validateDays, validateString, validateStringArray or
\* validateFilter has returned a value (the caller's or the default), the same
\* validator applied to that value returns it again.
C33_ValidatorsIdempotent ==
    pc = "revalidated" =>
        /\ hist[1].ok
        /\ hist[2].ok
        /\ hist[2].v = hist[1].v
        /\ outcome = Returned(hist[1].v)

C33_Witness ==
    /\ pc = "revalidated"
    /\ tool = "validateTop"
    /\ args.value = JSUndefined
    /\ args.defaultValue = DEFAULT_TOP_MEDIUM
    /\ hist[1].v = JSNum(DEFAULT_TOP_MEDIUM)
    /\ hist[2].v = JSNum(DEFAULT_TOP_MEDIUM)

(***************************************************************************)
(* C34                                                                     *)
(***************************************************************************)
\* C34: when the remote call of a builder operation fails with HTTP 429 and a
\* retry-after header of N seconds (here "2"), the sleep before the next attempt
\* is given N * 1000 ms.
C34_BuilderSleepsRetryAfter ==
    (/\ tool \in BuilderNames
     /\ pc = "sleeping"
     /\ Last(hist).raw.status = 429
     /\ Last(hist).raw.hint = StrHint(<<"2">>))
    => delay = 2 * 1000

\* C35: a tools/call request that omits the required identifier argument of its
\* tool issues no remote request, and its operation fails with INVALID_PARAMETER.
C35_Omitted ==
    /\ params.name \in ToolNames
    /\ params.arguments[ToolCalls[params.name].key] = JSUndefined

C35_OmittedIdentifierRejected ==
    (C35_Omitted /\ pc # "idle")
    => /\ requests = 0
       /\ pc \in {"done", "responded"}
             => outcome.t = "err" /\ outcome.e.code = "INVALID_PARAMETER"

\* C36: with the default policy and attempts remaining, a failure of the operation
\* that handleGraphError classifies as RATE_LIMITED or TIMEOUT, classified already
\* or still raw, is retried: it does not end the call.
C36_ClassifiedRetryable(failure) ==
    handleGraphError(failure).code \in {"RATE_LIMITED", "TIMEOUT"}

C36_RetryAgreesWithClassifier ==
    (/\ tool = "direct"
     /\ opts = DEFAULT_RETRY_OPTIONS
     /\ hist # <<>>
     /\ ~Last(hist).ok
     /\ C36_ClassifiedRetryable(Last(hist).raw)
     /\ Len(hist) <= opts.maxRetries)
    => pc # "done"

\* C37: in a call of retryWithBackoff with maxRetries >= 0 the operation is invoked
\* at least once and at most maxRetries + 1 times, and a finished call has slept
\* once less than it has invoked the operation: a sleep is entered only after a
\* retryable failure with an attempt left, and the step after it is the next
\* invocation's loop head.
C37_Counts ==
    (tool = "direct" /\ opts.maxRetries >= 0)
    => /\ invocations <= opts.maxRetries + 1
       /\ pc = "awaiting" => sleeps = invocations - 1
       /\ pc = "invoke" => sleeps = invocations
       /\ pc = "sleeping"
             => /\ sleeps = invocations
                /\ invocations <= opts.maxRetries
                /\ isRetryable(Last(hist).e, opts)
       /\ pc = "done"
             => /\ invocations >= 1
                /\ sleeps = invocations - 1

C37_InvocationsAndSleeps ==
    /\ []C37_Counts
    /\ [][(tool = "direct" /\ pc = "sleeping")
              => (pc' = "invoke" /\ sleeps' = sleeps /\ invocations' = invocations)]_vars

\* A call with three retries allowed ends on the non-retryable failure of its third
\* invocation, after two sleeps.
C37_Witness ==
    /\ tool = "direct"
    /\ pc = "done"
    /\ opts.maxRetries = 3
    /\ outcome.t = "err"
    /\ invocations = 3
    /\ sleeps = 2

\* C38: a request of getInactiveDevices made without a days argument (undefined or
\* null) filters on the date 90 days back, and a request made without a days
\* argument filters on the date 30 days back only in the operations documented
\* with a default of 30 days.
C38_WindowOf(days) == \E i \in 1..Len(request.filter) :
                          request.filter[i] = toISOString(getDateOffset(days))

C38_DocumentedThirty ==
    {"getInactiveUsers", "getUserSignIns", "getSignInsReport", "getFailedSignInsReport",
     "getAuditLogs"}

C38_InactiveDevicesDefaultWindow ==
    (tool \in BuilderNames /\ request.sent /\ Absent(args.days))
    => /\ tool = "getInactiveDevices" => C38_WindowOf(90)
       /\ C38_WindowOf(DEFAULT_DAYS) => tool \in C38_DocumentedThirty

====
